---- MODULE Spec2Model ----
(***************************************************************************)
(* File Examiner plugin (LM Studio): the four read-only tools read_file,   *)
(* list_directory, get_file_info and search_files of fileExaminerTools,    *)
(* with the path policy (validatePath), the extension gate                 *)
(* (validateExtension) and the wildcard matcher (matchesPattern).          *)
(*                                                                         *)
(* Strings are sequences of one-character strings, so that startsWith,     *)
(* toLowerCase, path.resolve, path.extname and the pattern-to-RegExp       *)
(* rewriting work on characters as the code does.  Paths follow the POSIX  *)
(* flavour of Node's path module (separator "/").                          *)
(***************************************************************************)
EXTENDS Integers, Sequences, FiniteSets, TLC

VARIABLES hostConfig, answers, config, fs, pc, call, validatedPath, stats, fsLog, entries,
          stack, awaiting, results, result

vars == <<hostConfig, answers, config, fs, pc, call, validatedPath, stats, fsLog, entries,
          stack, awaiting, results, result>>

(***************************************************************************)
(* Bounds of the model.                                                    *)
(***************************************************************************)
\* maxFileSize settings explored: 1..MaxSizeMB megabytes
MaxSizeMB == 2

\* symbolic links followed by one fs.stat before it gives up (ELOOP)
MaxLinkHops == 2

\* depth of the chain of nested directories below /c
ChainDepth == 12

(***************************************************************************)
(* Characters and strings.                                                 *)
(***************************************************************************)
UpperChars ==
  <<"A","B","C","D","E","F","G","H","I","J","K","L","M",
    "N","O","P","Q","R","S","T","U","V","W","X","Y","Z">>

LowerChars ==
  <<"a","b","c","d","e","f","g","h","i","j","k","l","m",
    "n","o","p","q","r","s","t","u","v","w","x","y","z">>

\* String.prototype.toLowerCase on one character
LowerChar(c) ==
  IF \E i \in 1..26 : UpperChars[i] = c
    THEN LowerChars[CHOOSE i \in 1..26 : UpperChars[i] = c]
    ELSE c

\* String.prototype.toLowerCase
toLowerCase(s) == [i \in 1..Len(s) |-> LowerChar(s[i])]

\* String.prototype.startsWith: a raw character prefix test
startsWith(s, p) == Len(p) <= Len(s) /\ SubSeq(s, 1, Len(p)) = p

\* Array.prototype.includes on a sequence
includes(list, x) == \E i \in 1..Len(list) : list[i] = x

\* index of the first / last occurrence of character c in s, 0 when absent
IndexOf(s, c) ==
  IF \E i \in 1..Len(s) : s[i] = c
    THEN CHOOSE i \in 1..Len(s) : s[i] = c /\ \A j \in 1..(i - 1) : s[j] # c
    ELSE 0

LastIndexOf(s, c) ==
  IF \E i \in 1..Len(s) : s[i] = c
    THEN CHOOSE i \in 1..Len(s) : s[i] = c /\ \A j \in (i + 1)..Len(s) : s[j] # c
    ELSE 0

\* String.prototype.split on a one-character separator.  Here and in the
\* helpers below, an argument that the body reads many times is first bound
\* to its value (s \in {str}), so that it is computed once
RECURSIVE Split(_, _)
Split(str, c) ==
  CHOOSE parts \in
    { LET i == IndexOf(s, c)
      IN  IF i = 0 THEN <<s>>
          ELSE <<SubSeq(s, 1, i - 1)>> \o Split(SubSeq(s, i + 1, Len(s)), c)
      : s \in {str} } : TRUE

\* Array.prototype.join with separator string sep
RECURSIVE Join(_, _)
Join(parts, sep) ==
  CHOOSE joined \in
    { IF Len(ps) = 0 THEN <<>>
      ELSE IF Len(ps) = 1 THEN ps[1]
      ELSE ps[1] \o sep \o Join(Tail(ps), sep)
      : ps \in {parts} } : TRUE

(***************************************************************************)
(* Node's path module, POSIX flavour.                                      *)
(***************************************************************************)
Sep == <<"/">>

\* process.cwd() of the plugin host
Cwd == <<"/","h","o","m","e">>

\* normalizeString: drops "" and "." segments, ".." removes the segment
\* before it (and is dropped at the root)
RECURSIVE NormalizeSegments(_, _)
NormalizeSegments(segments, res) ==
  CHOOSE normalized \in
    { IF Len(segs) = 0 THEN acc
      ELSE LET h == Head(segs)
           IN  IF h = <<>> \/ h = <<".">>
                 THEN NormalizeSegments(Tail(segs), acc)
               ELSE IF h = <<".", ".">>
                 THEN NormalizeSegments(Tail(segs),
                        IF Len(acc) = 0 THEN acc ELSE SubSeq(acc, 1, Len(acc) - 1))
               ELSE NormalizeSegments(Tail(segs), Append(acc, h))
      : segs \in {segments}, acc \in {res} } : TRUE

\* the segments of an absolute, normalised path
Segments(p) == NormalizeSegments(Split(p, "/"), <<>>)

\* path.resolve(p): absolute (relative input is taken from the working
\* directory), "." and ".." eliminated, no trailing separator; symbolic
\* links are not looked at
resolve(p) ==
  LET abs == IF Len(p) > 0 /\ p[1] = "/" THEN p ELSE Cwd \o Sep \o p
  IN  Sep \o Join(Segments(abs), Sep)

\* path.join(dir, name)
join(dir, name) == Sep \o Join(Segments(dir \o Sep \o name), Sep)

\* path.basename(p)
basename(p) ==
  LET segs == Segments(p)
  IN  IF Len(segs) = 0 THEN <<>> ELSE segs[Len(segs)]

\* path.dirname(p)
dirname(p) ==
  LET segs == Segments(p)
  IN  IF Len(segs) <= 1 THEN Sep
      ELSE Sep \o Join(SubSeq(segs, 1, Len(segs) - 1), Sep)

\* path.extname(p): from the last "." of the last segment to its end; ""
\* when there is none or when it is the segment's first character
extname(p) ==
  CHOOSE ext \in
    { LET i == LastIndexOf(b, ".")
      IN  IF i <= 1 THEN <<>> ELSE SubSeq(b, i, Len(b))
      : b \in {basename(p)} } : TRUE

(***************************************************************************)
(* Extension tables of the plugin.                                         *)
(***************************************************************************)
DEFAULT_ALLOWED_EXTENSIONS ==
  <<
    <<".","t","x","t">>, <<".","m","d">>, <<".","j","s","o","n">>, <<".","x","m","l">>,
    <<".","c","s","v">>, <<".","l","o","g">>, <<".","y","m","l">>, <<".","y","a","m","l">>,
    <<".","i","n","i">>, <<".","c","f","g">>, <<".","c","o","n","f">>, <<".","p","r","o","p","e","r","t","i","e","s">>,
    <<".","j","s">>, <<".","t","s">>, <<".","p","y">>, <<".","j","a","v","a">>,
    <<".","c","p","p">>, <<".","c">>, <<".","h">>, <<".","h","t","m","l">>,
    <<".","c","s","s">>, <<".","s","q","l">>, <<".","p","h","p">>, <<".","r","b">>,
    <<".","g","o">>, <<".","r","s">>, <<".","c","s">>, <<".","v","b">>,
    <<".","f","s">>, <<".","c","s","p","r","o","j">>, <<".","v","b","p","r","o","j">>, <<".","f","s","p","r","o","j">>,
    <<".","s","l","n">>, <<".","c","o","n","f","i","g">>, <<".","r","e","s","x">>, <<".","x","a","m","l">>,
    <<".","r","a","z","o","r">>, <<".","c","s","h","t","m","l">>, <<".","v","b","h","t","m","l">>, <<".","a","s","p","x">>,
    <<".","a","s","c","x">>, <<".","a","s","m","x">>, <<".","d","l","l">>, <<".","e","x","e">>,
    <<".","m","s","i">>, <<".","n","u","p","k","g">>, <<".","j","p","g">>, <<".","j","p","e","g">>,
    <<".","p","n","g">>, <<".","g","i","f">>, <<".","b","m","p">>, <<".","t","i","f","f">>,
    <<".","t","i","f">>, <<".","w","e","b","p">>, <<".","s","v","g">>, <<".","i","c","o">>,
    <<".","h","e","i","c">>, <<".","h","e","i","f">>, <<".","r","a","w">>, <<".","c","r","2">>,
    <<".","n","e","f">>, <<".","a","r","w">>, <<".","d","n","g">> >>

imageExtensions ==
  <<
    <<".","j","p","g">>, <<".","j","p","e","g">>, <<".","p","n","g">>, <<".","g","i","f">>,
    <<".","b","m","p">>, <<".","t","i","f","f">>, <<".","t","i","f">>, <<".","w","e","b","p">>,
    <<".","s","v","g">>, <<".","i","c","o">>, <<".","h","e","i","c">>, <<".","h","e","i","f">>,
    <<".","r","a","w">>, <<".","c","r","2">>, <<".","n","e","f">>, <<".","a","r","w">>,
    <<".","d","n","g">> >>

dotnetExtensions ==
  <<
    <<".","c","s">>, <<".","v","b">>, <<".","f","s">>, <<".","c","s","p","r","o","j">>,
    <<".","v","b","p","r","o","j">>, <<".","f","s","p","r","o","j">>, <<".","s","l","n">>, <<".","r","a","z","o","r">>,
    <<".","c","s","h","t","m","l">>, <<".","v","b","h","t","m","l">>, <<".","a","s","p","x">>, <<".","a","s","c","x">>,
    <<".","a","s","m","x">> >>

binaryExtensions ==
  <<
    <<".","d","l","l">>, <<".","e","x","e">>, <<".","m","s","i">>, <<".","n","u","p","k","g">> >>

readBinaryExtensions ==
  <<
    <<".","j","p","g">>, <<".","j","p","e","g">>, <<".","p","n","g">>, <<".","g","i","f">>,
    <<".","b","m","p">>, <<".","t","i","f","f">>, <<".","t","i","f">>, <<".","w","e","b","p">>,
    <<".","i","c","o">>, <<".","h","e","i","c">>, <<".","h","e","i","f">>, <<".","r","a","w">>,
    <<".","c","r","2">>, <<".","n","e","f">>, <<".","a","r","w">>, <<".","d","n","g">>,
    <<".","d","l","l">>, <<".","e","x","e">>, <<".","m","s","i">>, <<".","n","u","p","k","g">> >>

(***************************************************************************)
(* mime-types: lookup(path) maps the lowercased extension of "x." + path   *)
(* to a MIME type; the table holds the entries for the extensions used     *)
(* below.                                                                  *)
(***************************************************************************)
MimeTable ==
  <<
    <<<<"t","x","t">>, <<"t","e","x","t","/","p","l","a","i","n">>>>,
    <<<<"m","d">>, <<"t","e","x","t","/","m","a","r","k","d","o","w","n">>>>,
    <<<<"c","s","s">>, <<"t","e","x","t","/","c","s","s">>>>,
    <<<<"h","t","m","l">>, <<"t","e","x","t","/","h","t","m","l">>>>,
    <<<<"c","s","v">>, <<"t","e","x","t","/","c","s","v">>>>,
    <<<<"j","s","o","n">>, <<"a","p","p","l","i","c","a","t","i","o","n","/","j","s","o","n">>>>,
    <<<<"x","m","l">>, <<"a","p","p","l","i","c","a","t","i","o","n","/","x","m","l">>>>,
    <<<<"j","s">>, <<"a","p","p","l","i","c","a","t","i","o","n","/","j","a","v","a","s","c","r","i","p","t">>>>,
    <<<<"p","n","g">>, <<"i","m","a","g","e","/","p","n","g">>>>,
    <<<<"j","p","g">>, <<"i","m","a","g","e","/","j","p","e","g">>>>,
    <<<<"s","v","g">>, <<"i","m","a","g","e","/","s","v","g","+","x","m","l">>>>,
    <<<<"e","x","e">>, <<"a","p","p","l","i","c","a","t","i","o","n","/","x","-","m","s","d","o","w","n","l","o","a","d">>>>,
    <<<<"d","l","l">>, <<"a","p","p","l","i","c","a","t","i","o","n","/","x","-","m","s","d","o","w","n","l","o","a","d">>>> >>

Unknown == <<"u","n","k","n","o","w","n">>

\* mimeTypes.lookup(p) || "unknown"
MimeLookup(p) ==
  CHOOSE mime \in
    { LET key == IF Len(e) = 0 THEN <<>> ELSE Tail(e)
      IN  IF \E i \in 1..Len(MimeTable) : MimeTable[i][1] = key
            THEN MimeTable[CHOOSE i \in 1..Len(MimeTable) : MimeTable[i][1] = key][2]
            ELSE Unknown
      : e \in {toLowerCase(extname(<<"x", ".">> \o p))} } : TRUE

(***************************************************************************)
(* Errors and result envelopes.                                            *)
(***************************************************************************)
NoError == [kind |-> "none", str |-> <<>>, size |-> 0, max |-> 0]

\* new Error(message): kind names the message template, str its ${...} text
Err(kind, str) == [kind |-> kind, str |-> str, size |-> 0, max |-> 0]

\* `File too large: ${stats.size} bytes (max: ${config.maxFileSize})`
ErrTooLarge(size, max) == [kind |-> "FileTooLarge", str |-> <<>>, size |-> size, max |-> max]

NoData == [kind |-> "none"]

NoResult == [success |-> FALSE, error |-> NoError, data |-> NoData]

\* mutant: the catch block returns the envelope without the message
Failure_NoMessage(e) == [success |-> FALSE, error |-> NoError, data |-> NoData]

\* catch (error) { return { success: false, error: error.message } }
Failure(e) == [success |-> FALSE, error |-> e, data |-> NoData]

Success(d) == [success |-> TRUE, error |-> NoError, data |-> d]

(***************************************************************************)
(* The path policy and the extension gate.                                 *)
(***************************************************************************)
\* mutant: the comparison without toLowerCase
IsRestrictedBy_CaseSensitive(normalizedPath, restrictedPath) ==
  startsWith(normalizedPath, restrictedPath)

\* the test of one restricted path inside validatePath's loop
IsRestrictedBy(normalizedPath, restrictedPath) ==
  startsWith(toLowerCase(normalizedPath), toLowerCase(restrictedPath))

\* validatePath(filePath, restrictedPaths): the resolved path, or the
\* "Access denied" error of the first restricted path that matches
validatePath(filePath, restrictedPaths) ==
  LET normalizedPath == resolve(filePath)
      hits == {i \in 1..Len(restrictedPaths) :
                 IsRestrictedBy(normalizedPath, restrictedPaths[i])}
  IN  IF hits # {}
        THEN [ok |-> FALSE, path |-> normalizedPath,
              error |-> Err("AccessDenied",
                            restrictedPaths[CHOOSE i \in hits : \A j \in hits : i <= j])]
        ELSE [ok |-> TRUE, path |-> normalizedPath, error |-> NoError]

\* mutant: the extension is compared as spelled, not in lowercase
validateExtension_NoLower(filePath, allowedExtensions, cfg) ==
  LET ext == extname(filePath)
  IN  IF ~includes(allowedExtensions, ext)
        THEN Err("FileTypeNotAllowed", ext)
      ELSE IF includes(imageExtensions, ext) /\ ~cfg.enableImageFiles
        THEN Err("ImageFilesDisabled", <<>>)
      ELSE IF includes(dotnetExtensions, ext) /\ ~cfg.enableDotNetFiles
        THEN Err("DotNetFilesDisabled", <<>>)
      ELSE IF includes(binaryExtensions, ext) /\ ~cfg.enableBinaryFiles
        THEN Err("BinaryFilesDisabled", <<>>)
      ELSE NoError

\* mutant: the .NET toggle is not consulted
validateExtension_NoDotNet(filePath, allowedExtensions, cfg) ==
  LET ext == toLowerCase(extname(filePath))
  IN  IF ~includes(allowedExtensions, ext)
        THEN Err("FileTypeNotAllowed", ext)
      ELSE IF includes(imageExtensions, ext) /\ ~cfg.enableImageFiles
        THEN Err("ImageFilesDisabled", <<>>)
      ELSE IF includes(binaryExtensions, ext) /\ ~cfg.enableBinaryFiles
        THEN Err("BinaryFilesDisabled", <<>>)
      ELSE NoError

\* mutant: a path without extension is refused whatever the allowlist holds
validateExtension_NoExtensionRefused(filePath, allowedExtensions, cfg) ==
  LET ext == toLowerCase(extname(filePath))
  IN  IF Len(ext) = 0 \/ ~includes(allowedExtensions, ext)
        THEN Err("FileTypeNotAllowed", ext)
      ELSE IF includes(imageExtensions, ext) /\ ~cfg.enableImageFiles
        THEN Err("ImageFilesDisabled", <<>>)
      ELSE IF includes(dotnetExtensions, ext) /\ ~cfg.enableDotNetFiles
        THEN Err("DotNetFilesDisabled", <<>>)
      ELSE IF includes(binaryExtensions, ext) /\ ~cfg.enableBinaryFiles
        THEN Err("BinaryFilesDisabled", <<>>)
      ELSE NoError

\* validateExtension(filePath, allowedExtensions, config): the error it
\* throws, NoError when it returns true
validateExtension(filePath, allowedExtensions, cfg) ==
  LET ext == toLowerCase(extname(filePath))
  IN  IF ~includes(allowedExtensions, ext)
        THEN Err("FileTypeNotAllowed", ext)
      ELSE IF includes(imageExtensions, ext) /\ ~cfg.enableImageFiles
        THEN Err("ImageFilesDisabled", <<>>)
      ELSE IF includes(dotnetExtensions, ext) /\ ~cfg.enableDotNetFiles
        THEN Err("DotNetFilesDisabled", <<>>)
      ELSE IF includes(binaryExtensions, ext) /\ ~cfg.enableBinaryFiles
        THEN Err("BinaryFilesDisabled", <<>>)
      ELSE NoError

\* mutant: the extension list alone decides
isBinaryFile_ExtensionOnly(ext, mimeType) ==
  includes(readBinaryExtensions, ext)

\* read_file's isBinaryFile
isBinaryFile(ext, mimeType) ==
  \/ includes(readBinaryExtensions, ext)
  \/ startsWith(mimeType, <<"i","m","a","g","e","/">>)
  \/ startsWith(mimeType, <<"a","p","p","l","i","c","a","t","i","o","n","/">>)

\* maxFileSizeMB * 1024 * 1024
MegaBytes(mb) == mb * 1024 * 1024

(***************************************************************************)
(* The file system the tools read: a map from absolute path to node.       *)
(***************************************************************************)
\* readable: the directory can be enumerated (permission r); traversable:
\* the entries of the directory can be reached (permission x)
FileNode(size, content) ==
  [type |-> "file", size |-> size, content |-> content, target |-> <<>>,
   names |-> <<>>, readable |-> TRUE, traversable |-> TRUE]

DirNode(names) ==
  [type |-> "dir", size |-> 0, content |-> "", target |-> <<>>,
   names |-> names, readable |-> TRUE, traversable |-> TRUE]

LinkNode(target) ==
  [type |-> "symlink", size |-> 0, content |-> "", target |-> target,
   names |-> <<>>, readable |-> TRUE, traversable |-> TRUE]

Digits == <<"1", "2", "3", "4", "5", "6", "7", "8", "9">>

BigDir == <<"/","b","i","g">>

\* /big holds, for each size limit k MB that can be configured, a file of
\* exactly k MB (m<k>.txt) and one a byte larger (o<k>.txt)
BigName(k, over) == <<IF over THEN "o" ELSE "m", Digits[k]>> \o <<".","t","x","t">>

BigPath(k, over) == BigDir \o Sep \o BigName(k, over)

\* /big/x.bin is larger than every limit, and .bin is in no allowlist
HugeName == <<"x",".","b","i","n">>

HugePath == BigDir \o Sep \o HugeName

BigNames ==
  [i \in 1..(2 * MaxSizeMB) |-> BigName((i + 1) \div 2, i % 2 = 0)]

BigFiles ==
  [p \in {BigPath(k, over) : k \in 1..MaxSizeMB, over \in BOOLEAN} |->
     LET k == CHOOSE j \in 1..MaxSizeMB : p \in {BigPath(j, FALSE), BigPath(j, TRUE)}
     IN  FileNode(IF p = BigPath(k, TRUE) THEN MegaBytes(k) + 1 ELSE MegaBytes(k),
                  "bytes of a big file")]

ChainDir == <<"/","c">>

\* /c is the head of a chain of directories d nested ChainDepth deep, each
\* level holding a file f.txt
RECURSIVE ChainPath(_)
ChainPath(k) == IF k = 0 THEN ChainDir ELSE ChainPath(k - 1) \o <<"/","d">>

ChainName == <<"f",".","t","x","t">>

ChainNodes ==
  [p \in {ChainPath(k) : k \in 0..ChainDepth} |->
     DirNode(IF p = ChainPath(ChainDepth) THEN <<ChainName>> ELSE <<ChainName, <<"d">>>>)]
  @@ [p \in {ChainPath(k) \o Sep \o ChainName : k \in 0..ChainDepth} |->
        FileNode(6, "bytes of a file of the chain")]

InitialFs ==
  (<<"/">> :> DirNode(<<<<"s","y","s">>, <<"s","y","s","b">>, <<"h","o","m","e">>, <<"b","i","g">>, <<"c">>>>))
  @@ (<<"/","s","y","s">> :> DirNode(<<<<"x",".","t","x","t">>>>))
  @@ (<<"/","s","y","s","b">> :> DirNode(<<<<"a",".","t","x","t">>>>))
  @@ (<<"/","h","o","m","e">> :> DirNode(
       <<<<"a",".","t","x","t">>, <<"A","B",".","T","X","T">>, <<"a","x","t","x","t">>, <<"p",".","j","s","o","n">>, <<"i",".","p","n","g">>, <<"c",".","c","s">>, <<"t",".","e","x","e">>, <<"d",".","s","v","g">>, <<"n","o","e","x","t">>, <<".","h","i","d">>, <<"l","i","n","k">>, <<"p","r","i","v">>, <<"n","o","x">>, <<"s","u","b">>, <<"d","d",".","t","x","t">>>>))
  @@ (<<"/","h","o","m","e","/","p","r","i","v">> :> [DirNode(<<<<"s",".","t","x","t">>>>) EXCEPT !.readable = FALSE])
  @@ (<<"/","h","o","m","e","/","p","r","i","v","/","s",".","t","x","t">> :> FileNode(3, "bytes of /home/priv/s.txt"))
  @@ (<<"/","h","o","m","e","/","n","o","x">> :> [DirNode(<<<<"b",".","t","x","t">>>>) EXCEPT !.traversable = FALSE])
  @@ (<<"/","h","o","m","e","/","n","o","x","/","b",".","t","x","t">> :> FileNode(4, "bytes of /home/nox/b.txt"))
  @@ (<<"/","h","o","m","e","/","d","d",".","t","x","t">> :> DirNode(<<<<"d","a","n","g">>>>))
  @@ (<<"/","h","o","m","e","/","d","d",".","t","x","t","/","d","a","n","g">> :> LinkNode(<<"/","g","o","n","e">>))
  @@ (<<"/","h","o","m","e","/","s","u","b">> :> DirNode(<<<<"n",".","m","d">>, <<"a",".","t","x","t">>, <<"l","o","o","p">>>>))
  @@ (<<"/","h","o","m","e","/","s","u","b","/","l","o","o","p">> :> LinkNode(<<"/","h","o","m","e">>))
  @@ (<<"/","h","o","m","e","/","l","i","n","k">> :> LinkNode(<<"/","s","y","s">>))
  @@ (<<"/","s","y","s","/","x",".","t","x","t">> :> FileNode(7, "bytes of /sys/x.txt"))
  @@ (<<"/","s","y","s","b","/","a",".","t","x","t">> :> FileNode(5, "bytes of /sysb/a.txt"))
  @@ (<<"/","h","o","m","e","/","a",".","t","x","t">> :> FileNode(12, "bytes of /home/a.txt"))
  @@ (<<"/","h","o","m","e","/","A","B",".","T","X","T">> :> FileNode(3, "bytes of /home/AB.TXT"))
  @@ (<<"/","h","o","m","e","/","a","x","t","x","t">> :> FileNode(4, "bytes of /home/axtxt"))
  @@ (<<"/","h","o","m","e","/","p",".","j","s","o","n">> :> FileNode(20, "bytes of /home/p.json"))
  @@ (<<"/","h","o","m","e","/","i",".","p","n","g">> :> FileNode(900, "bytes of /home/i.png"))
  @@ (<<"/","h","o","m","e","/","c",".","c","s">> :> FileNode(40, "bytes of /home/c.cs"))
  @@ (<<"/","h","o","m","e","/","t",".","e","x","e">> :> FileNode(5000, "bytes of /home/t.exe"))
  @@ (<<"/","h","o","m","e","/","d",".","s","v","g">> :> FileNode(60, "bytes of /home/d.svg"))
  @@ (<<"/","h","o","m","e","/","n","o","e","x","t">> :> FileNode(1, "bytes of /home/noext"))
  @@ (<<"/","h","o","m","e","/",".","h","i","d">> :> FileNode(2, "bytes of /home/.hid"))
  @@ (<<"/","h","o","m","e","/","s","u","b","/","n",".","m","d">> :> FileNode(9, "bytes of /home/sub/n.md"))
  @@ (<<"/","h","o","m","e","/","s","u","b","/","a",".","t","x","t">> :> FileNode(8, "bytes of /home/sub/a.txt"))
  @@ (BigDir :> DirNode(Append(BigNames, HugeName)))
  @@ BigFiles
  @@ (HugePath :> FileNode(MegaBytes(MaxSizeMB) + 1, "bytes of /big/x.bin"))
  @@ ChainNodes

\* what the operating system does with a path: follow it segment by
\* segment, replacing every symbolic link met by its target; a directory
\* that is not the last segment must be traversable
RECURSIVE RealPath(_, _, _, _)
RealPath(f, walked, left, hops) ==
  CHOOSE r \in
    { IF Len(rest) = 0 THEN [ok |-> TRUE, path |-> Sep \o Join(done, Sep), code |-> "none"]
      ELSE LET cand == Sep \o Join(Append(done, Head(rest)), Sep)
           IN  IF cand \notin DOMAIN f
                 THEN [ok |-> FALSE, path |-> cand, code |-> "ENOENT"]
               ELSE IF f[cand].type = "symlink"
                 THEN IF hops = 0
                        THEN [ok |-> FALSE, path |-> cand, code |-> "ELOOP"]
                        ELSE RealPath(f, <<>>, Segments(f[cand].target) \o Tail(rest), hops - 1)
               ELSE IF Len(rest) > 1 /\ f[cand].type # "dir"
                 THEN [ok |-> FALSE, path |-> cand, code |-> "ENOTDIR"]
               ELSE IF Len(rest) > 1 /\ ~f[cand].traversable
                 THEN [ok |-> FALSE, path |-> cand, code |-> "EACCES"]
               ELSE RealPath(f, Append(done, Head(rest)), Tail(rest), hops)
      : done \in {walked}, rest \in {left} } : TRUE

NoStats == [ok |-> FALSE, type |-> "none", size |-> 0, real |-> <<>>, error |-> NoError]

\* the null byte, as one character of a path
NUL == "<NUL>"

hasNul(p) == \E i \in 1..Len(p) : p[i] = NUL

\* fs.stat(p): follows symbolic links; a path with a null byte is refused
\* by the argument check of the fs functions (ERR_INVALID_ARG_VALUE)
FsStat(f, p) ==
  CHOOSE s \in
    { IF hasNul(p)
        THEN [ok |-> FALSE, type |-> "none", size |-> 0, real |-> <<>>,
              error |-> Err("ERR_INVALID_ARG_VALUE", p)]
      ELSE IF r.ok
        THEN [ok |-> TRUE, type |-> f[r.path].type, size |-> f[r.path].size,
              real |-> r.path, error |-> NoError]
        ELSE [ok |-> FALSE, type |-> "none", size |-> 0, real |-> <<>>,
              error |-> Err(r.code, p)]
      : r \in {RealPath(f, <<>>, Segments(p), MaxLinkHops)} } : TRUE

\* mutant: a Dirent is typed by what a symbolic link points to
FsReaddir_FollowsLinks(f, p) ==
  CHOOSE r \in
    { IF ~s.ok THEN [ok |-> FALSE, entries |-> <<>>, error |-> s.error]
      ELSE IF s.type # "dir"
        THEN [ok |-> FALSE, entries |-> <<>>, error |-> Err("ENOTDIR", p)]
      ELSE IF ~f[s.real].readable
        THEN [ok |-> FALSE, entries |-> <<>>, error |-> Err("EACCES", p)]
      ELSE [ok |-> TRUE,
            entries |-> [i \in 1..Len(f[s.real].names) |->
                           LET t == FsStat(f, join(s.real, f[s.real].names[i]))
                           IN  [name |-> f[s.real].names[i],
                                kind |-> IF t.ok THEN t.type ELSE "symlink"]],
            error |-> NoError]
      : s \in {FsStat(f, p)} } : TRUE

\* fs.readdir(p, { withFileTypes: true }): one Dirent per name, typed by the
\* entry itself (a symbolic link is neither isFile() nor isDirectory())
FsReaddir(f, p) ==
  CHOOSE r \in
    { IF ~s.ok THEN [ok |-> FALSE, entries |-> <<>>, error |-> s.error]
      ELSE IF s.type # "dir"
        THEN [ok |-> FALSE, entries |-> <<>>, error |-> Err("ENOTDIR", p)]
      ELSE IF ~f[s.real].readable
        THEN [ok |-> FALSE, entries |-> <<>>, error |-> Err("EACCES", p)]
      ELSE [ok |-> TRUE,
            entries |-> [i \in 1..Len(f[s.real].names) |->
                           [name |-> f[s.real].names[i],
                            kind |-> f[join(s.real, f[s.real].names[i])].type]],
            error |-> NoError]
      : s \in {FsStat(f, p)} } : TRUE

\* fs.readFile(p, encoding): the file's bytes decoded with the encoding
FsReadFile(f, p, encoding) ==
  LET s == FsStat(f, p)
  IN  IF ~s.ok THEN [ok |-> FALSE, content |-> NoData, error |-> s.error]
      ELSE IF s.type # "file"
        THEN [ok |-> FALSE, content |-> NoData, error |-> Err("EISDIR", p)]
      ELSE [ok |-> TRUE,
            content |-> [kind |-> "text", bytes |-> f[s.real].content,
                         length |-> f[s.real].size, encoding |-> encoding],
            error |-> NoError]

(***************************************************************************)
(* The wildcard matcher: the pattern is rewritten into the source of a     *)
(* regular expression, which is then tested against the file name.         *)
(***************************************************************************)
\* String.prototype.replace(/c/g, repl) for a one-character c
RECURSIVE replaceAll(_, _, _)
replaceAll(str, c, repl) ==
  CHOOSE replaced \in
    { IF Len(s) = 0 THEN <<>>
      ELSE (IF Head(s) = c THEN repl ELSE <<Head(s)>>) \o replaceAll(Tail(s), c, repl)
      : s \in {str} } : TRUE

\* the regular-expression source matchesPattern builds
regexSource(pattern) ==
  <<"^">> \o replaceAll(replaceAll(pattern, "*", <<".", "*">>), "?", <<".">>) \o <<"$">>

\* the index of the "]" that closes a character class opened before i, or
\* 0 when the class is never closed
RECURSIVE ClassEnd(_, _)
ClassEnd(src, i) ==
  IF i > Len(src) THEN 0
  ELSE IF src[i] = "\\" THEN ClassEnd(src, i + 2)
  ELSE IF src[i] = "]" THEN i
  ELSE ClassEnd(src, i + 1)

\* new RegExp(source) throws a SyntaxError: a group or a character class
\* that is never closed, a ")" that closes nothing, a "\" at the end, or a
\* quantifier with nothing to repeat.  depth counts the open groups, atom
\* tells whether the term before position i can be repeated
RECURSIVE ScanRegex(_, _, _, _)
ScanRegex(src, i, depth, atom) ==
  IF i > Len(src) THEN depth # 0
  ELSE LET c == src[i]
       IN  IF c = "\\"
             THEN i = Len(src) \/ ScanRegex(src, i + 2, depth, TRUE)
           ELSE IF c = "["
             THEN ClassEnd(src, i + 1) = 0
                  \/ ScanRegex(src, ClassEnd(src, i + 1) + 1, depth, TRUE)
           ELSE IF c = "("
             THEN ScanRegex(src, i + 1, depth + 1, FALSE)
           ELSE IF c = ")"
             THEN depth = 0 \/ ScanRegex(src, i + 1, depth - 1, TRUE)
           ELSE IF c \in {"*", "+", "?"}
             THEN ~atom \/ ScanRegex(src, i + 1, depth, FALSE)
           ELSE IF c \in {"^", "$", "|"}
             THEN ScanRegex(src, i + 1, depth, FALSE)
           ELSE ScanRegex(src, i + 1, depth, TRUE)

RegexSyntaxError(source) ==
  \E src \in {source} : ScanRegex(src, 1, 0, FALSE)

\* new RegExp(source): the source as a sequence of tokens.  "^" and "$" are
\* assertions, "." is any character, "\x" and every other character are
\* literals, a "*" after "." or a literal repeats it zero or more times, and
\* a "+" one or more times (the term once, then the term starred)
RECURSIVE ParseRegex(_)
ParseRegex(source) ==
  CHOOSE tokens \in
    { IF Len(src) = 0 THEN <<>>
      ELSE LET c    == src[1]
               esc  == c = "\\" /\ Len(src) >= 2
               used == IF esc THEN 2 ELSE 1
               kind == IF esc THEN "lit"
                       ELSE IF c = "^" THEN "start"
                       ELSE IF c = "$" THEN "end"
                       ELSE IF c = "." THEN "any"
                       ELSE "lit"
               ch   == IF esc THEN src[2] ELSE c
               rep  == kind \in {"lit", "any"} /\ Len(src) > used
               star == rep /\ src[used + 1] = "*"
               plus == rep /\ src[used + 1] = "+"
               next == IF star \/ plus THEN used + 1 ELSE used
           IN  (IF plus THEN <<[kind |-> kind, ch |-> ch, star |-> FALSE]>> ELSE <<>>)
                 \o <<[kind |-> kind, ch |-> ch, star |-> star \/ plus]>>
                 \o ParseRegex(SubSeq(src, next + 1, Len(src)))
      : src \in {source} } : TRUE

\* one token against one character
AtomMatches(tk, c, ignoreCase) ==
  \/ tk.kind = "any"
  \/ /\ tk.kind = "lit"
     /\ IF ignoreCase THEN LowerChar(tk.ch) = LowerChar(c) ELSE tk.ch = c

\* the tokens match s from position pos on
RECURSIVE MatchHere(_, _, _, _)
MatchHere(tks, s, at, ignoreCase) ==
  \E tokens \in {tks}, pos \in {at} :
    IF Len(tokens) = 0 THEN TRUE
    ELSE LET tk == Head(tokens)
         IN  IF tk.kind = "start"
               THEN pos = 1 /\ MatchHere(Tail(tokens), s, pos, ignoreCase)
             ELSE IF tk.kind = "end"
               THEN pos = Len(s) + 1 /\ MatchHere(Tail(tokens), s, pos, ignoreCase)
             ELSE IF tk.star
               THEN \/ MatchHere(Tail(tokens), s, pos, ignoreCase)
                    \/ /\ pos <= Len(s)
                       /\ AtomMatches(tk, s[pos], ignoreCase)
                       /\ MatchHere(tokens, s, pos + 1, ignoreCase)
             ELSE /\ pos <= Len(s)
                  /\ AtomMatches(tk, s[pos], ignoreCase)
                  /\ MatchHere(Tail(tokens), s, pos + 1, ignoreCase)

\* RegExp.prototype.test: a match starting anywhere in s
RegexTest(tks, str, ignoreCase) ==
  \E tokens \in {tks}, s \in {str} :
    \E pos \in 1..(Len(s) + 1) : MatchHere(tokens, s, pos, ignoreCase)

\* matchesPattern throws: the pattern does not rewrite into a regular
\* expression
matchesPatternThrows(pattern) == RegexSyntaxError(regexSource(pattern))

\* matchesPattern(filename, pattern) of search_files (flag "i"), for a
\* pattern with which it does not throw
matchesPattern(filename, pattern) ==
  RegexTest(ParseRegex(regexSource(pattern)), filename, TRUE)

(***************************************************************************)
(* Plugin configuration.                                                   *)
(***************************************************************************)
\* String.prototype.trim (blanks)
RECURSIVE trim(_)
trim(s) ==
  IF Len(s) = 0 THEN s
  ELSE IF Head(s) = " " THEN trim(Tail(s))
  ELSE IF s[Len(s)] = " " THEN trim(SubSeq(s, 1, Len(s) - 1))
  ELSE s

\* str.split(",").map(x => x.trim()).filter(x => x.length > 0)
ParseList(str) ==
  LET parts == Split(str, ",")
      F[i \in 0..Len(parts)] ==
        IF i = 0 THEN <<>>
        ELSE IF Len(trim(parts[i])) > 0 THEN Append(F[i - 1], trim(parts[i]))
        ELSE F[i - 1]
  IN  F[Len(parts)]

DEFAULT_RESTRICTED_PATHS ==
  << <<"C",":","\\","W","i","n","d","o","w","s","\\","S","y","s","t","e","m","3","2">>,
     <<"C",":","\\","P","r","o","g","r","a","m"," ","F","i","l","e","s">>,
     <<"C",":","\\","P","r","o","g","r","a","m"," ","F","i","l","e","s"," ","(","x","8","6",")">> >>

\* mutant: the parsed allowlist is used as it is, empty or not
getConfig_NoFallback(pluginConfig) ==
  LET allowedExtensions == ParseList(pluginConfig.allowedExtensions)
      restrictedPaths   == ParseList(pluginConfig.restrictedPaths)
  IN  [allowedExtensions |-> allowedExtensions,
       restrictedPaths   |-> IF Len(restrictedPaths) > 0 THEN restrictedPaths
                             ELSE DEFAULT_RESTRICTED_PATHS,
       maxFileSize       |-> MegaBytes(pluginConfig.maxFileSize),
       enableImageFiles  |-> pluginConfig.enableImageFiles,
       enableDotNetFiles |-> pluginConfig.enableDotNetFiles,
       enableBinaryFiles |-> pluginConfig.enableBinaryFiles]

\* getConfig(ctl): the policy the tools are built with
getConfig(pluginConfig) ==
  LET allowedExtensions == ParseList(pluginConfig.allowedExtensions)
      restrictedPaths   == ParseList(pluginConfig.restrictedPaths)
  IN  [allowedExtensions |-> IF Len(allowedExtensions) > 0 THEN allowedExtensions
                             ELSE DEFAULT_ALLOWED_EXTENSIONS,
       restrictedPaths   |-> IF Len(restrictedPaths) > 0 THEN restrictedPaths
                             ELSE DEFAULT_RESTRICTED_PATHS,
       maxFileSize       |-> MegaBytes(pluginConfig.maxFileSize),
       enableImageFiles  |-> pluginConfig.enableImageFiles,
       enableDotNetFiles |-> pluginConfig.enableDotNetFiles,
       enableBinaryFiles |-> pluginConfig.enableBinaryFiles]

\* the settings explored: an allowlist of .txt alone or the empty setting
\* (the default list), one or two restricted directories, 1..MaxSizeMB MB
PluginConfigs ==
  [allowedExtensions : { <<".","t","x","t">>, <<>> },
   restrictedPaths   : { <<"/","s","y","s">>,
                         <<"/","h","o","m","e","/","s","u","b",","," ","/","s","y","s">> },
   maxFileSize       : 1..MaxSizeMB,
   enableImageFiles  : BOOLEAN,
   enableDotNetFiles : BOOLEAN,
   enableBinaryFiles : BOOLEAN]

(***************************************************************************)
(* Inputs of the tools.                                                    *)
(***************************************************************************)
RawPaths ==
  { <<"/","h","o","m","e","/","a",".","t","x","t">>,
    <<"/","h","o","m","e","/","A","B",".","T","X","T">>,
    <<"/","h","o","m","e","/","p",".","j","s","o","n">>,
    <<"/","h","o","m","e","/","i",".","p","n","g">>,
    <<"/","h","o","m","e","/","c",".","c","s">>,
    <<"/","h","o","m","e","/","t",".","e","x","e">>,
    <<"/","h","o","m","e","/","d",".","s","v","g">>,
    <<"/","h","o","m","e","/","n","o","e","x","t">>,
    <<"/","h","o","m","e","/","n","o","p","e",".","t","x","t">>,
    <<"/","h","o","m","e">>,
    <<"/","h","o","m","e","/">>,
    <<"/","h","o","m","e","/","s","u","b">>,
    <<"/">>,
    <<"/","s","y","s">>,
    <<"/","s","y","s","/">>,
    <<"/","s","y","s","/","x",".","t","x","t">>,
    <<"/","s","y","s","/",".",".","/","s","y","s","/","x",".","t","x","t">>,
    <<"/","S","Y","S","/","x",".","t","x","t">>,
    <<"/","h","o","m","e","/",".",".","/","s","y","s","/",".","/","x",".","t","x","t">>,
    <<"/","S","y","s">>,
    <<"/","s","y","s","b">>,
    <<"/","s","y","s","b","/","a",".","t","x","t">>,
    <<"/","h","o","m","e","/","l","i","n","k">>,
    <<"/","h","o","m","e","/","l","i","n","k","/","x",".","t","x","t">>,
    <<"/","h","o","m","e","/","p","r","i","v">>,
    <<"/","h","o","m","e","/","n","o","x">>,
    <<"/","h","o","m","e","/","d","d",".","t","x","t">>,
    <<"/","h","o","m","e","/","n","o","p","e">>,
    <<"/","h","o","m","e","/","a",NUL,".","t","x","t">>,
    <<"/","h","o","m","e","/","s","u","b",NUL>>,
    HugePath,
    <<"a",".","t","x","t">>,
    <<".",".","/","s","y","s","/","x",".","t","x","t">>,
    <<"s","u","b","/",".",".","/",".",".","/","s","y","s">> }
  \cup {BigPath(k, over) : k \in 1..MaxSizeMB, over \in BOOLEAN}

SearchRoots ==
  { <<"/","h","o","m","e">>,
    <<"/","h","o","m","e","/","s","u","b",NUL>>,
    ChainDir,
    <<"/">>,
    <<"/","s","y","s","/",".",".","/","s","y","s">>,
    <<"/","s","y","s","b">>,
    <<"/","h","o","m","e","/","l","i","n","k">>,
    <<"/","h","o","m","e","/","n","o","p","e",".","t","x","t">>,
    <<"/","h","o","m","e","/","a",".","t","x","t">> }

Patterns ==
  { <<"*",".","t","x","t">>,
    <<"*",".","T","X","T">>,
    <<"?",".","t","x","t">>,
    <<"a","*">>,
    <<"t","x","t">>,
    <<"(","*">>,
    <<"*">> }

Encodings == {"utf8", "base64"}

\* searchInDirectory: if (depth > 10) return
SEARCH_MAX_DEPTH == 10

BinaryPlaceholder ==
  [kind |-> "placeholder", bytes |-> "[Binary file - content not readable as text]",
   length |-> 0, encoding |-> ""]

\* null in a returned record
Null == <<"<null>">>

NoCall ==
  [op |-> "none", path |-> <<>>, encoding |-> "", include_hidden |-> FALSE,
   pattern |-> <<>>, recursive |-> FALSE]

NoAwait == [kind |-> "none", path |-> <<>>, depth |-> 0, name |-> <<>>]

FsCall(fn, p) == [fn |-> fn, path |-> p]

Init ==
  /\ hostConfig \in PluginConfigs
  /\ answers = {}
  /\ config = getConfig(hostConfig)
  /\ fs = InitialFs
  /\ pc = "idle"
  /\ call = NoCall
  /\ validatedPath = <<>>
  /\ stats = NoStats
  /\ fsLog = <<>>
  /\ entries = <<>>
  /\ stack = <<>>
  /\ awaiting = NoAwait
  /\ results = <<>>
  /\ result = NoResult

(***************************************************************************)
(* The tools.  A call starts when no other call is running; each await of  *)
(* an fs promise ends a step; the returned envelope stays in result until  *)
(* the host has taken it.  fsLog is the list of fs calls the running call  *)
(* has issued so far.                                                      *)
(***************************************************************************)
Idle == pc = "idle"

\* the per-call variables of a call that starts
Begin(c) ==
  /\ call' = c
  /\ stats' = NoStats
  /\ entries' = <<>>
  /\ stack' = <<>>
  /\ awaiting' = NoAwait
  /\ results' = <<>>
  /\ UNCHANGED <<hostConfig, answers, config, fs>>

\* the call returns the envelope r
Return(r) ==
  /\ pc' = "done"
  /\ result' = r

(*------------------------------ read_file -------------------------------*)
\* mutant: a file of exactly the maximum is refused too
exceedsMaxSize_Geq(size, max) == size >= max

\* size check of read_file
exceedsMaxSize(size, max) == size > max

\* mutant: read_file asks the plugin configuration at each call instead of
\* the policy read when the tool set was built
ReadFileCall_LivePolicy(file_path, encoding) ==
  /\ Idle
  /\ Begin([NoCall EXCEPT !.op = "read_file", !.path = file_path,
                          !.encoding = encoding])
  /\ LET live == getConfig(hostConfig)
         v    == validatePath(file_path, live.restrictedPaths)
         e    == validateExtension(v.path, live.allowedExtensions, live)
     IN  IF ~v.ok
           THEN Return(Failure(v.error)) /\ validatedPath' = <<>> /\ fsLog' = <<>>
         ELSE IF e # NoError
           THEN Return(Failure(e)) /\ validatedPath' = v.path /\ fsLog' = <<>>
         ELSE /\ pc' = "read_stat"
              /\ result' = NoResult
              /\ validatedPath' = v.path
              /\ fsLog' = <<FsCall("stat", v.path)>>

\* mutant: read_file asks validateExtension before validatePath
ReadFileCall_ExtensionFirst(file_path, encoding) ==
  /\ Idle
  /\ Begin([NoCall EXCEPT !.op = "read_file", !.path = file_path,
                          !.encoding = encoding])
  /\ LET v == validatePath(file_path, config.restrictedPaths)
         e == validateExtension(v.path, config.allowedExtensions, config)
     IN  IF e # NoError
           THEN Return(Failure(e)) /\ validatedPath' = <<>> /\ fsLog' = <<>>
         ELSE IF ~v.ok
           THEN Return(Failure(v.error)) /\ validatedPath' = <<>> /\ fsLog' = <<>>
         ELSE /\ pc' = "read_stat"
              /\ result' = NoResult
              /\ validatedPath' = v.path
              /\ fsLog' = <<FsCall("stat", v.path)>>

\* read_file up to its first await: validatePath, validateExtension, then
\* fs.stat is issued
ReadFileCall(file_path, encoding) ==
  /\ Idle
  /\ Begin([NoCall EXCEPT !.op = "read_file", !.path = file_path,
                          !.encoding = encoding])
  /\ LET v == validatePath(file_path, config.restrictedPaths)
         e == validateExtension(v.path, config.allowedExtensions, config)
     IN  IF ~v.ok
           THEN Return(Failure(v.error)) /\ validatedPath' = <<>> /\ fsLog' = <<>>
         ELSE IF e # NoError
           THEN Return(Failure(e)) /\ validatedPath' = v.path /\ fsLog' = <<>>
         ELSE /\ pc' = "read_stat"
              /\ result' = NoResult
              /\ validatedPath' = v.path
              /\ fsLog' = <<FsCall("stat", v.path)>>

\* fs.stat returned: file check, size check, binary classification
ReadStat ==
  /\ pc = "read_stat"
  /\ LET s        == FsStat(fs, validatedPath)
         ext      == toLowerCase(extname(validatedPath))
         mimeType == MimeLookup(validatedPath)
     IN  /\ stats' = s
         /\ IF ~s.ok
              THEN Return(Failure(s.error)) /\ fsLog' = fsLog
            ELSE IF s.type # "file"
              THEN Return(Failure(Err("NotAFile", <<>>))) /\ fsLog' = fsLog
            ELSE IF exceedsMaxSize(s.size, config.maxFileSize)
              THEN Return(Failure(ErrTooLarge(s.size, config.maxFileSize)))
                   /\ fsLog' = fsLog
            ELSE IF isBinaryFile(ext, mimeType)
              THEN Return(Success([kind |-> "read_file", isBinary |-> TRUE,
                                   content |-> BinaryPlaceholder,
                                   path |-> validatedPath, size |-> s.size,
                                   mimeType |-> mimeType, fileType |-> ext]))
                   /\ fsLog' = fsLog
            ELSE /\ pc' = "read_readFile"
                 /\ result' = NoResult
                 /\ fsLog' = Append(fsLog, FsCall("readFile", validatedPath))
  /\ UNCHANGED <<hostConfig, answers, config, fs,
                 call, validatedPath, entries, stack, awaiting, results>>

\* mutant: the file that was read is written back with its line ends
\* normalised
ReadReadFile_WritesBack ==
  /\ pc = "read_readFile"
  /\ LET r == FsReadFile(fs, validatedPath, call.encoding)
     IN  IF ~r.ok
           THEN Return(Failure(r.error)) /\ fs' = fs
           ELSE /\ Return(Success([kind |-> "read_file", isBinary |-> FALSE,
                                   content |-> r.content,
                                   path |-> validatedPath, size |-> stats.size,
                                   mimeType |-> MimeLookup(validatedPath),
                                   fileType |-> <<>>]))
                /\ fs' = [fs EXCEPT ![stats.real].content = "normalised bytes"]
  /\ UNCHANGED <<hostConfig, answers, config,
                 call, validatedPath, stats, fsLog, entries, stack,
                 awaiting, results>>

\* fs.readFile returned
ReadReadFile ==
  /\ pc = "read_readFile"
  /\ LET r == FsReadFile(fs, validatedPath, call.encoding)
     IN  IF ~r.ok
           THEN Return(Failure(r.error))
           ELSE Return(Success([kind |-> "read_file", isBinary |-> FALSE,
                                content |-> r.content,
                                path |-> validatedPath, size |-> stats.size,
                                mimeType |-> MimeLookup(validatedPath),
                                fileType |-> <<>>]))
  /\ UNCHANGED <<hostConfig, answers, config, fs,
                 call, validatedPath, stats, fsLog, entries, stack,
                 awaiting, results>>

(*---------------------------- list_directory ----------------------------*)
\* mutant: fs.stat is issued on the resolved path before the policy is asked
ListDirectoryCall_StatFirst(dir_path, include_hidden) ==
  /\ Idle
  /\ Begin([NoCall EXCEPT !.op = "list_directory", !.path = dir_path,
                          !.include_hidden = include_hidden])
  /\ pc' = "list_stat"
  /\ result' = NoResult
  /\ validatedPath' = resolve(dir_path)
  /\ fsLog' = <<FsCall("stat", resolve(dir_path))>>

\* list_directory up to its first await
ListDirectoryCall(dir_path, include_hidden) ==
  /\ Idle
  /\ Begin([NoCall EXCEPT !.op = "list_directory", !.path = dir_path,
                          !.include_hidden = include_hidden])
  /\ LET v == validatePath(dir_path, config.restrictedPaths)
     IN  IF ~v.ok
           THEN Return(Failure(v.error)) /\ validatedPath' = <<>> /\ fsLog' = <<>>
           ELSE /\ pc' = "list_stat"
                /\ result' = NoResult
                /\ validatedPath' = v.path
                /\ fsLog' = <<FsCall("stat", v.path)>>

\* mutant: fs.readdir is issued without the directory check
ListStat_NoDirectoryCheck ==
  /\ pc = "list_stat"
  /\ LET s == FsStat(fs, validatedPath)
     IN  /\ stats' = s
         /\ IF ~s.ok
              THEN Return(Failure(s.error)) /\ fsLog' = fsLog
              ELSE /\ pc' = "list_readdir"
                   /\ result' = NoResult
                   /\ fsLog' = Append(fsLog, FsCall("readdir", validatedPath))
  /\ UNCHANGED <<hostConfig, answers, config, fs,
                 call, validatedPath, entries, stack, awaiting, results>>

\* fs.stat returned: directory check, then fs.readdir is issued
ListStat ==
  /\ pc = "list_stat"
  /\ LET s == FsStat(fs, validatedPath)
     IN  /\ stats' = s
         /\ IF ~s.ok
              THEN Return(Failure(s.error)) /\ fsLog' = fsLog
            ELSE IF s.type # "dir"
              THEN Return(Failure(Err("NotADirectory", <<>>))) /\ fsLog' = fsLog
            ELSE /\ pc' = "list_readdir"
                 /\ result' = NoResult
                 /\ fsLog' = Append(fsLog, FsCall("readdir", validatedPath))
  /\ UNCHANGED <<hostConfig, answers, config, fs,
                 call, validatedPath, entries, stack, awaiting, results>>

\* fs.readdir returned
ListReaddir ==
  /\ pc = "list_readdir"
  /\ LET r == FsReaddir(fs, validatedPath)
     IN  IF ~r.ok
           THEN Return(Failure(r.error)) /\ entries' = <<>>
           ELSE pc' = "list_loop" /\ result' = NoResult /\ entries' = r.entries
  /\ UNCHANGED <<hostConfig, answers, config, fs,
                 call, validatedPath, stats, fsLog, stack, awaiting, results>>

\* the record list_directory pushes for one entry
ListItem(entry, itemPath, itemStats) ==
  [name |-> entry.name, path |-> itemPath,
   type |-> IF entry.kind = "dir" THEN "directory" ELSE "file",
   size |-> itemStats.size,
   extension |-> IF entry.kind = "file" THEN extname(entry.name) ELSE Null,
   mimeType |-> IF entry.kind = "file" THEN MimeLookup(entry.name) ELSE Null]

\* mutant: no entry is skipped
skipHidden_Never(include_hidden, name) == FALSE

\* if (!include_hidden && entry.name.startsWith(".")) continue
skipHidden(include_hidden, name) == ~include_hidden /\ startsWith(name, <<".">>)

\* mutant: when fs.stat of an entry fails, the items pushed so far are
\* returned
ListLoop_PartialOnError ==
  /\ pc = "list_loop"
  /\ IF Len(entries) = 0
       THEN /\ Return(Success([kind |-> "list_directory", path |-> validatedPath,
                               items |-> results, count |-> Len(results)]))
            /\ UNCHANGED <<entries, results, fsLog>>
     ELSE LET entry    == Head(entries)
              itemPath == join(validatedPath, entry.name)
              s        == FsStat(fs, itemPath)
          IN  IF skipHidden(call.include_hidden, entry.name)
                THEN /\ entries' = Tail(entries)
                     /\ UNCHANGED <<pc, result, results, fsLog>>
              ELSE IF ~s.ok
                THEN /\ Return(Success([kind |-> "list_directory",
                                        path |-> validatedPath,
                                        items |-> results, count |-> Len(results)]))
                     /\ fsLog' = Append(fsLog, FsCall("stat", itemPath))
                     /\ UNCHANGED <<entries, results>>
              ELSE /\ entries' = Tail(entries)
                   /\ results' = Append(results, ListItem(entry, itemPath, s))
                   /\ fsLog' = Append(fsLog, FsCall("stat", itemPath))
                   /\ UNCHANGED <<pc, result>>
  /\ UNCHANGED <<hostConfig, answers, config, fs,
                 call, validatedPath, stats, stack, awaiting>>

\* one turn of the for loop: a hidden entry is skipped, any other is
\* stat-ed and pushed; after the last entry the call returns
ListLoop ==
  /\ pc = "list_loop"
  /\ IF Len(entries) = 0
       THEN /\ Return(Success([kind |-> "list_directory", path |-> validatedPath,
                               items |-> results, count |-> Len(results)]))
            /\ UNCHANGED <<entries, results, fsLog>>
     ELSE LET entry    == Head(entries)
              itemPath == join(validatedPath, entry.name)
              s        == FsStat(fs, itemPath)
          IN  IF skipHidden(call.include_hidden, entry.name)
                THEN /\ entries' = Tail(entries)
                     /\ UNCHANGED <<pc, result, results, fsLog>>
              ELSE IF ~s.ok
                THEN /\ Return(Failure(s.error))
                     /\ fsLog' = Append(fsLog, FsCall("stat", itemPath))
                     /\ UNCHANGED <<entries, results>>
              ELSE /\ entries' = Tail(entries)
                   /\ results' = Append(results, ListItem(entry, itemPath, s))
                   /\ fsLog' = Append(fsLog, FsCall("stat", itemPath))
                   /\ UNCHANGED <<pc, result>>
  /\ UNCHANGED <<hostConfig, answers, config, fs,
                 call, validatedPath, stats, stack, awaiting>>

(*----------------------------- get_file_info ----------------------------*)
\* mutant: get_file_info asks validateExtension as read_file does
GetFileInfoCall_ExtensionGate(file_path) ==
  /\ Idle
  /\ Begin([NoCall EXCEPT !.op = "get_file_info", !.path = file_path])
  /\ LET v == validatePath(file_path, config.restrictedPaths)
         e == validateExtension(v.path, config.allowedExtensions, config)
     IN  IF ~v.ok
           THEN Return(Failure(v.error)) /\ validatedPath' = <<>> /\ fsLog' = <<>>
         ELSE IF e # NoError
           THEN Return(Failure(e)) /\ validatedPath' = v.path /\ fsLog' = <<>>
         ELSE /\ pc' = "info_stat"
              /\ result' = NoResult
              /\ validatedPath' = v.path
              /\ fsLog' = <<FsCall("stat", v.path)>>

\* get_file_info up to its first await
GetFileInfoCall(file_path) ==
  /\ Idle
  /\ Begin([NoCall EXCEPT !.op = "get_file_info", !.path = file_path])
  /\ LET v == validatePath(file_path, config.restrictedPaths)
     IN  IF ~v.ok
           THEN Return(Failure(v.error)) /\ validatedPath' = <<>> /\ fsLog' = <<>>
           ELSE /\ pc' = "info_stat"
                /\ result' = NoResult
                /\ validatedPath' = v.path
                /\ fsLog' = <<FsCall("stat", v.path)>>

\* the extension lists of get_file_info's additional information
infoDotnetFiles ==
  <<
    <<".","c","s">>, <<".","v","b">>, <<".","f","s">>, <<".","c","s","p","r","o","j">>,
    <<".","v","b","p","r","o","j">>, <<".","f","s","p","r","o","j">>, <<".","s","l","n">>, <<".","c","o","n","f","i","g">> >>

infoImageFiles ==
  <<
    <<".","j","p","g">>, <<".","j","p","e","g">>, <<".","p","n","g">>, <<".","g","i","f">>,
    <<".","b","m","p">>, <<".","t","i","f","f">>, <<".","t","i","f">>, <<".","w","e","b","p">>,
    <<".","s","v","g">>, <<".","i","c","o">> >>

infoBinaryFiles ==
  <<
    <<".","d","l","l">>, <<".","e","x","e">>, <<".","m","s","i">> >>

\* additionalInfo.fileCategory: set for a regular file by the last of the
\* three lists that holds its extension; "" when the key is not set
fileCategory(ext, isFile) ==
  IF ~isFile THEN ""
  ELSE IF includes(infoBinaryFiles, ext) THEN "Binary/Executable"
  ELSE IF includes(infoImageFiles, ext) THEN "Image File"
  ELSE IF includes(infoDotnetFiles, ext) THEN ".NET Development File"
  ELSE ""

\* the record get_file_info returns for the entry with stats s
FileInfo(p, s, category) ==
  [kind |-> "get_file_info", path |-> p,
   name |-> basename(p),
   directory |-> dirname(p),
   extension |-> toLowerCase(extname(p)),
   type |-> IF s.type = "file" THEN "file"
            ELSE IF s.type = "dir" THEN "directory" ELSE "other",
   size |-> s.size,
   mimeType |-> IF s.type = "file" THEN MimeLookup(p) ELSE Null,
   readable |-> TRUE, writable |-> FALSE,
   fileCategory |-> category]

\* mutant: additionalInfo is one object shared by all calls, a category set
\* by an earlier call stays until another is set
InfoStat_SharedAdditionalInfo ==
  /\ pc = "info_stat"
  /\ LET s    == FsStat(fs, validatedPath)
         ext  == toLowerCase(extname(validatedPath))
         own  == fileCategory(ext, s.type = "file")
         left == {a.result.data.fileCategory :
                    a \in {x \in answers : x.result.success}} \ {""}
     IN  /\ stats' = s
         /\ IF ~s.ok
              THEN Return(Failure(s.error))
              ELSE Return(Success(FileInfo(validatedPath, s,
                     IF own = "" /\ left # {}
                       THEN CHOOSE c \in left : TRUE ELSE own)))
  /\ UNCHANGED <<hostConfig, answers, config, fs,
                 call, validatedPath, fsLog, entries, stack, awaiting,
                 results>>

\* fs.stat returned: the metadata record
InfoStat ==
  /\ pc = "info_stat"
  /\ LET s   == FsStat(fs, validatedPath)
         ext == toLowerCase(extname(validatedPath))
     IN  /\ stats' = s
         /\ IF ~s.ok
              THEN Return(Failure(s.error))
              ELSE Return(Success(FileInfo(validatedPath, s,
                                           fileCategory(ext, s.type = "file"))))
  /\ UNCHANGED <<hostConfig, answers, config, fs,
                 call, validatedPath, fsLog, entries, stack, awaiting,
                 results>>

(*------------------------------ search_files ----------------------------*)
\* the record search_files pushes for a matching file
SearchItem(name, entryPath, s) ==
  [name |-> name, path |-> entryPath, directory |-> dirname(entryPath),
   size |-> s.size, extension |-> extname(name),
   mimeType |-> MimeLookup(entryPath)]

\* search_files up to its first await: validatePath, then
\* searchInDirectory(validatedPath, 0) issues fs.readdir
SearchFilesCall(search_path, pattern, recursive) ==
  /\ Idle
  /\ call' = [NoCall EXCEPT !.op = "search_files", !.path = search_path,
                            !.pattern = pattern, !.recursive = recursive]
  /\ stats' = NoStats
  /\ entries' = <<>>
  /\ stack' = <<>>
  /\ results' = <<>>
  /\ LET v == validatePath(search_path, config.restrictedPaths)
     IN  IF ~v.ok
           THEN /\ Return(Failure(v.error))
                /\ validatedPath' = <<>>
                /\ fsLog' = <<>>
                /\ awaiting' = NoAwait
           ELSE /\ pc' = "search_readdir"
                /\ result' = NoResult
                /\ validatedPath' = v.path
                /\ fsLog' = <<FsCall("readdir", v.path)>>
                /\ awaiting' = [NoAwait EXCEPT !.kind = "readdir", !.path = v.path]
  /\ UNCHANGED <<hostConfig, answers, config, fs>>

\* mutant: the recursive call is not wrapped in try/catch, an error of
\* fs.readdir in a subdirectory fails the tool
SearchReaddir_NoCatch ==
  /\ pc = "search_readdir"
  /\ LET r == FsReaddir(fs, awaiting.path)
     IN  IF r.ok
           THEN /\ stack' = Append(stack, [dir |-> awaiting.path,
                                           depth |-> awaiting.depth,
                                           entries |-> r.entries])
                /\ pc' = "search_loop"
                /\ result' = NoResult
         ELSE Return(Failure(r.error)) /\ stack' = stack
  /\ awaiting' = NoAwait
  /\ UNCHANGED <<hostConfig, answers, config, fs,
                 call, validatedPath, stats, fsLog, entries, results>>

\* fs.readdir of searchInDirectory returned.  An error in the root call
\* fails the tool; in a nested call it is caught by the caller's try/catch,
\* which goes on with its next entry
SearchReaddir ==
  /\ pc = "search_readdir"
  /\ LET r == FsReaddir(fs, awaiting.path)
     IN  IF r.ok
           THEN /\ stack' = Append(stack, [dir |-> awaiting.path,
                                           depth |-> awaiting.depth,
                                           entries |-> r.entries])
                /\ pc' = "search_loop"
                /\ result' = NoResult
         ELSE IF Len(stack) = 0
           THEN Return(Failure(r.error)) /\ stack' = stack
         ELSE pc' = "search_loop" /\ result' = NoResult /\ stack' = stack
  /\ awaiting' = NoAwait
  /\ UNCHANGED <<hostConfig, answers, config, fs,
                 call, validatedPath, stats, fsLog, entries, results>>

\* mutant: a subdirectory is searched whether recursive is set or not
entersDirectory_Always(kind, recursive) == kind = "dir"

\* else if (entry.isDirectory() && recursive)
entersDirectory(kind, recursive) == kind = "dir" /\ recursive

\* mutant: searchInDirectory without its depth test
depthExceeded_Never(depth) == FALSE

\* the depth test at the head of searchInDirectory
depthExceeded(depth) == depth > SEARCH_MAX_DEPTH

\* one turn of searchInDirectory's for loop in the innermost running call;
\* when its entries are used up the call returns to its caller.  A throw
\* of matchesPattern ends the running searchInDirectory call as an fs error
\* does: the root call fails the tool, a nested call is abandoned
SearchLoop ==
  /\ pc = "search_loop"
  /\ LET top  == stack[Len(stack)]
         rest == SubSeq(stack, 1, Len(stack) - 1)
     IN  IF Len(top.entries) = 0
           THEN /\ stack' = rest
                /\ IF Len(rest) = 0
                     THEN Return(Success([kind |-> "search_files",
                                          searchPath |-> validatedPath,
                                          pattern |-> call.pattern,
                                          recursive |-> call.recursive,
                                          results |-> results,
                                          count |-> Len(results)]))
                     ELSE UNCHANGED <<pc, result>>
                /\ UNCHANGED <<awaiting, fsLog>>
         ELSE LET entry     == Head(top.entries)
                  entryPath == join(top.dir, entry.name)
              IN  IF entry.kind = "file" /\ matchesPatternThrows(call.pattern)
                    THEN /\ IF Len(rest) = 0
                              THEN Return(Failure(Err("SyntaxError", call.pattern)))
                              ELSE UNCHANGED <<pc, result>>
                         /\ stack' = rest
                         /\ UNCHANGED <<awaiting, fsLog>>
                  ELSE /\ stack' = Append(rest, [top EXCEPT !.entries = Tail(top.entries)])
                       /\ IF entry.kind = "file" /\ matchesPattern(entry.name, call.pattern)
                            THEN /\ pc' = "search_stat"
                                 /\ awaiting' = [kind |-> "stat", path |-> entryPath,
                                                 depth |-> top.depth, name |-> entry.name]
                                 /\ fsLog' = Append(fsLog, FsCall("stat", entryPath))
                          ELSE IF entersDirectory(entry.kind, call.recursive)
                                  /\ ~depthExceeded(top.depth + 1)
                            THEN /\ pc' = "search_readdir"
                                 /\ awaiting' = [kind |-> "readdir", path |-> entryPath,
                                                 depth |-> top.depth + 1, name |-> entry.name]
                                 /\ fsLog' = Append(fsLog, FsCall("readdir", entryPath))
                          ELSE UNCHANGED <<pc, awaiting, fsLog>>
                       /\ UNCHANGED result
  /\ UNCHANGED <<hostConfig, answers, config, fs,
                 call, validatedPath, stats, entries, results>>

\* fs.stat of a matching file returned.  An error ends the running
\* searchInDirectory call: the root call fails the tool, a nested call is
\* abandoned and its caller goes on
SearchStat ==
  /\ pc = "search_stat"
  /\ LET s == FsStat(fs, awaiting.path)
     IN  IF s.ok
           THEN /\ results' = Append(results, SearchItem(awaiting.name, awaiting.path, s))
                /\ pc' = "search_loop"
                /\ UNCHANGED <<result, stack>>
         ELSE IF Len(stack) = 1
           THEN Return(Failure(s.error)) /\ UNCHANGED <<results, stack>>
         ELSE /\ stack' = SubSeq(stack, 1, Len(stack) - 1)
              /\ pc' = "search_loop"
              /\ UNCHANGED <<result, results>>
  /\ awaiting' = NoAwait
  /\ UNCHANGED <<hostConfig, answers, config, fs,
                 call, validatedPath, stats, fsLog, entries>>

(*------------------------------- the host -------------------------------*)
\* the promise of the implementation has resolved: the host takes the
\* envelope, and the tools can be called again
Deliver ==
  /\ pc = "done"
  /\ pc' = "idle"
  /\ call' = NoCall
  /\ validatedPath' = <<>>
  /\ stats' = NoStats
  /\ fsLog' = <<>>
  /\ entries' = <<>>
  /\ stack' = <<>>
  /\ awaiting' = NoAwait
  /\ results' = <<>>
  /\ result' = NoResult
  /\ UNCHANGED <<hostConfig, answers, config, fs>>

\* Deliver, with the host keeping the envelope of each get_file_info call
\* next to the path that was asked
DeliverKept ==
  /\ pc = "done"
  /\ pc' = "idle"
  /\ answers' = IF call.op = "get_file_info"
                  THEN answers \cup {[path |-> call.path, result |-> result]}
                  ELSE answers
  /\ call' = NoCall
  /\ validatedPath' = <<>>
  /\ stats' = NoStats
  /\ fsLog' = <<>>
  /\ entries' = <<>>
  /\ stack' = <<>>
  /\ awaiting' = NoAwait
  /\ results' = <<>>
  /\ result' = NoResult
  /\ UNCHANGED <<hostConfig, config, fs>>

\* the user changes the settings of the plugin; the tool set in use is not
\* told
ChangePluginConfig(c) ==
  /\ c # hostConfig
  /\ hostConfig' = c
  /\ UNCHANGED <<answers, config, fs, pc, call, validatedPath, stats, fsLog,
                 entries, stack, awaiting, results, result>>

\* a chat session starts: the host calls fileExaminerTools, which reads the
\* plugin configuration into the policy of the new tool set
BuildToolSet ==
  /\ Idle
  /\ config' = getConfig(hostConfig)
  /\ UNCHANGED <<hostConfig, answers, fs, pc, call, validatedPath, stats, fsLog,
                 entries, stack, awaiting, results, result>>

(***************************************************************************)
(* Specification.                                                          *)
(***************************************************************************)
Next ==
  \/ \E p \in RawPaths, enc \in Encodings : ReadFileCall(p, enc)
  \/ ReadStat
  \/ ReadReadFile
  \/ \E p \in RawPaths, h \in BOOLEAN : ListDirectoryCall(p, h)
  \/ ListStat
  \/ ListReaddir
  \/ ListLoop
  \/ \E p \in RawPaths : GetFileInfoCall(p)
  \/ InfoStat
  \/ \E p \in SearchRoots, pat \in Patterns, r \in BOOLEAN : SearchFilesCall(p, pat, r)
  \/ SearchReaddir
  \/ SearchLoop
  \/ SearchStat
  \/ Deliver

Spec == Init /\ [][Next]_vars

(***************************************************************************)
(* Specification with a plugin configuration that changes while the tools  *)
(* are in use: the four tools on a few paths, the settings changing at any *)
(* moment, a new tool set built between calls.                             *)
(***************************************************************************)
\* the settings the user switches between
ReconfigChoices ==
  {c \in PluginConfigs :
     /\ c.maxFileSize \in {1, MaxSizeMB}
     /\ c.enableImageFiles = c.enableBinaryFiles
     /\ c.enableDotNetFiles = c.enableBinaryFiles
     /\ (c.allowedExtensions = <<>>) = c.enableBinaryFiles}

ReconfigPaths ==
  { <<"/","h","o","m","e","/","a",".","t","x","t">>,
    <<"/","h","o","m","e","/","t",".","e","x","e">>,
    <<"/","h","o","m","e","/","s","u","b">>,
    <<"/","h","o","m","e","/","s","u","b","/","a",".","t","x","t">>,
    BigPath(1, TRUE) }

InitReconfig == Init /\ hostConfig \in ReconfigChoices

NextReconfig ==
  \/ \E c \in ReconfigChoices : ChangePluginConfig(c)
  \/ BuildToolSet
  \/ \E p \in ReconfigPaths : ReadFileCall(p, "utf8")
  \/ ReadStat
  \/ ReadReadFile
  \/ \E p \in ReconfigPaths : ListDirectoryCall(p, FALSE)
  \/ ListStat
  \/ ListReaddir
  \/ ListLoop
  \/ \E p \in ReconfigPaths : GetFileInfoCall(p)
  \/ InfoStat
  \/ \E p \in ReconfigPaths : SearchFilesCall(p, <<"*">>, FALSE)
  \/ SearchReaddir
  \/ SearchLoop
  \/ SearchStat
  \/ Deliver

SpecReconfig == InitReconfig /\ [][NextReconfig]_vars

(***************************************************************************)
(* Specification with a host that keeps the answers of get_file_info: the  *)
(* same paths are asked again and again, with calls of the other tools in  *)
(* between.                                                                *)
(***************************************************************************)
TwicePaths ==
  { <<"/","h","o","m","e","/","a",".","t","x","t">>,
    <<"a",".","t","x","t">>,
    <<"/","h","o","m","e","/","c",".","c","s">>,
    <<"/","h","o","m","e","/","s","u","b">>,
    <<"/","h","o","m","e","/","s","u","b","/","a",".","t","x","t">>,
    <<"/","h","o","m","e","/","n","o","p","e",".","t","x","t">> }

InitTwice ==
  /\ Init
  /\ hostConfig.maxFileSize = 1
  /\ hostConfig.allowedExtensions = <<>>
  /\ hostConfig.enableImageFiles /\ hostConfig.enableDotNetFiles
  /\ hostConfig.enableBinaryFiles

NextTwice ==
  \/ \E p \in TwicePaths : GetFileInfoCall(p)
  \/ InfoStat
  \/ \E p \in TwicePaths : ReadFileCall(p, "utf8")
  \/ ReadStat
  \/ ReadReadFile
  \/ \E p \in TwicePaths : ListDirectoryCall(p, TRUE)
  \/ ListStat
  \/ ListReaddir
  \/ ListLoop
  \/ DeliverKept

SpecTwice == InitTwice /\ [][NextTwice]_vars

(***************************************************************************)
(* Specification of the allowlist setting: the setting is any of a few     *)
(* strings, among them the empty one and ones of commas and blanks only;   *)
(* tool sets are built from it and read_file is called.                    *)
(***************************************************************************)
AllowlistSettings ==
  { <<>>,
    <<",">>,
    <<" ",","," ",",">>,
    <<".","t","x","t">>,
    <<" ",".","t","x","t",","," ",",">>,
    <<"t","x","t">> }

SettingsChoices ==
  [allowedExtensions : AllowlistSettings,
   restrictedPaths   : { <<"/","s","y","s">> },
   maxFileSize       : {1},
   enableImageFiles  : {TRUE},
   enableDotNetFiles : {TRUE},
   enableBinaryFiles : {TRUE}]

SettingsPaths ==
  { <<"/","h","o","m","e","/","a",".","t","x","t">>,
    <<"/","h","o","m","e","/","p",".","j","s","o","n">>,
    <<"/","h","o","m","e","/","n","o","e","x","t">>,
    <<"/","h","o","m","e","/","t",".","e","x","e">>,
    <<"/","h","o","m","e","/","c",".","c","s">> }

InitSettings ==
  /\ hostConfig \in SettingsChoices
  /\ answers = {}
  /\ config = getConfig(hostConfig)
  /\ fs = InitialFs
  /\ pc = "idle"
  /\ call = NoCall
  /\ validatedPath = <<>>
  /\ stats = NoStats
  /\ fsLog = <<>>
  /\ entries = <<>>
  /\ stack = <<>>
  /\ awaiting = NoAwait
  /\ results = <<>>
  /\ result = NoResult

NextSettings ==
  \/ \E c \in SettingsChoices : ChangePluginConfig(c)
  \/ BuildToolSet
  \/ \E p \in SettingsPaths : ReadFileCall(p, "utf8")
  \/ ReadStat
  \/ ReadReadFile
  \/ Deliver

SpecSettings == InitSettings /\ [][NextSettings]_vars

(***************************************************************************)
(* Specification of the searches alone, with the steps of a running search *)
(* taken sooner or later: the event loop runs the continuation of every    *)
(* fs promise that has settled.                                            *)
(***************************************************************************)
NextSearch ==
  \/ \E p \in SearchRoots, pat \in Patterns, r \in BOOLEAN : SearchFilesCall(p, pat, r)
  \/ SearchReaddir
  \/ SearchLoop
  \/ SearchStat
  \/ Deliver

SpecSearch ==
  /\ InitTwice
  /\ [][NextSearch]_vars
  /\ WF_vars(SearchReaddir)
  /\ WF_vars(SearchLoop)
  /\ WF_vars(SearchStat)

(***************************************************************************)
(* Specification of read_file and list_directory next to another process   *)
(* that works on the same files: between two awaits of a call the other    *)
(* process may remove an entry or append to a file.                        *)
(***************************************************************************)
\* how many bytes the other process appends to one file
MaxGrowth == 1

EnvRemovable ==
  { <<"/","h","o","m","e","/","s","u","b","/","a",".","t","x","t">>,
    <<"/","h","o","m","e","/","s","u","b","/","n",".","m","d">> }

EnvGrowable == { BigPath(1, FALSE) }

EnvListPaths ==
  { <<"/","h","o","m","e","/","s","u","b">>,
    <<"/","h","o","m","e","/","d","d",".","t","x","t">>,
    <<"/","h","o","m","e","/","n","o","x">>,
    <<"/","s","y","s","b">> }

EnvReadPaths ==
  { BigPath(1, FALSE),
    <<"/","h","o","m","e","/","s","u","b","/","a",".","t","x","t">> }

\* unlink(p) by the other process: the node is gone and its directory no
\* longer names it
RemoveEntry(p) ==
  /\ p \in DOMAIN fs
  /\ fs' = [q \in DOMAIN fs \ {p} |->
              IF q = dirname(p)
                THEN [fs[q] EXCEPT !.names = SelectSeq(@, LAMBDA n : n # basename(p))]
                ELSE fs[q]]
  /\ UNCHANGED <<hostConfig, answers, config, pc, call, validatedPath, stats,
                 fsLog, entries, stack, awaiting, results, result>>

\* the other process appends one byte to the file p
GrowFile(p) ==
  /\ p \in DOMAIN fs
  /\ fs[p].size < InitialFs[p].size + MaxGrowth
  /\ fs' = [fs EXCEPT ![p].size = @ + 1]
  /\ UNCHANGED <<hostConfig, answers, config, pc, call, validatedPath, stats,
                 fsLog, entries, stack, awaiting, results, result>>

NextEnv ==
  \/ \E p \in EnvReadPaths : ReadFileCall(p, "utf8")
  \/ ReadStat
  \/ ReadReadFile
  \/ \E p \in EnvListPaths, h \in BOOLEAN : ListDirectoryCall(p, h)
  \/ ListStat
  \/ ListReaddir
  \/ ListLoop
  \/ Deliver
  \/ \E p \in EnvRemovable : RemoveEntry(p)
  \/ \E p \in EnvGrowable : GrowFile(p)

SpecEnv == InitTwice /\ [][NextEnv]_vars

(***************************************************************************)
(* Properties.                                                             *)
(***************************************************************************)
Done == pc = "done"

Denied == Done /\ ~result.success /\ result.error.kind = "AccessDenied"

\* p is q or lies below q, counted in whole path segments
SegmentsUnder(p, q) ==
  /\ Len(q) <= Len(p)
  /\ SubSeq(p, 1, Len(q)) = q

\* the absolute path p is equal to, or nested under, a restricted path of
\* the policy, letter case disregarded
UnderRestricted(p) ==
  \E i \in 1..Len(config.restrictedPaths) :
     SegmentsUnder(Segments(toLowerCase(p)),
                   Segments(toLowerCase(config.restrictedPaths[i])))

\* the call's path passes the path policy
PathAccepted == validatePath(call.path, config.restrictedPaths).ok

\* the lowercased extension of the call's resolved path
CallExt == toLowerCase(extname(resolve(call.path)))

\* C1: every call, of any of the four tools, whose path normalises (".",
\* "..", trailing or doubled separators, a relative spelling, any letter
\* case) to a restricted path or to a path below one ends with the
\* access-denied error.
C1_RestrictedPathDenied ==
  (call.op # "none" /\ UnderRestricted(resolve(call.path))) => Denied

C1_Witness ==
  /\ Denied
  /\ call.op = "search_files"
  /\ call.path = <<"/","s","y","s","/",".",".","/","s","y","s">>

\* C2: a call whose path reaches, through symbolic links, a real target
\* under a restricted path ends with the access-denied error.  Checked in
\* the form the stated one implies: such a call is never answered with
\* success.
C2_SymlinkEscapeClosed ==
  (/\ Done
   /\ call.op # "none"
   /\ FsStat(fs, resolve(call.path)).ok
   /\ UnderRestricted(FsStat(fs, resolve(call.path)).real)) => ~result.success

\* C3: a call is denied if and only if its normalised path is a restricted
\* path or has one as an ancestor directory; a sibling whose name only
\* begins with the same characters is not denied.
C3_SegmentBoundary ==
  (Done /\ call.op # "none") => (Denied <=> UnderRestricted(resolve(call.path)))

\* C4: a call that ends with the access-denied error has issued no fs call,
\* and no fs call is issued for a path the policy has not accepted.
C4_PolicyBeforeFs ==
  /\ Denied => fsLog = <<>>
  /\ fsLog # <<>> => (PathAccepted /\ validatedPath = resolve(call.path))

C4_Witness ==
  /\ Denied
  /\ call.op = "list_directory"
  /\ call.path = <<"/","S","Y","S","/","x",".","t","x","t">>
  /\ fsLog = <<>>

\* C5: read_file on an accepted path whose lowercased extension is not in
\* the allowlist ends with "File type not allowed: <ext>", whatever the
\* category toggles are; an extension that is in the allowlist once
\* lowercased is not refused for its type.
C5_ExtensionNotAllowed ==
  (call.op = "read_file" /\ PathAccepted) =>
    IF includes(config.allowedExtensions, CallExt)
      THEN result.error.kind # "FileTypeNotAllowed"
      ELSE /\ Done
           /\ ~result.success
           /\ result.error.kind = "FileTypeNotAllowed"
           /\ result.error.str = CallExt
           /\ result.data = NoData

C5_Witness ==
  /\ Done
  /\ call.op = "read_file"
  /\ call.path = <<"/","h","o","m","e","/","i",".","p","n","g">>
  /\ config.allowedExtensions = << <<".","t","x","t">> >>
  /\ config.enableImageFiles /\ config.enableDotNetFiles /\ config.enableBinaryFiles
  /\ result.error.kind = "FileTypeNotAllowed"
  /\ result.error.str = <<".","p","n","g">>

\* the error of the toggled category an extension belongs to
CategoryTable ==
  << [extensions |-> imageExtensions, error |-> "ImageFilesDisabled"],
     [extensions |-> dotnetExtensions, error |-> "DotNetFilesDisabled"],
     [extensions |-> binaryExtensions, error |-> "BinaryFilesDisabled"] >>

CategoryEnabled(i) ==
  IF i = 1 THEN config.enableImageFiles
  ELSE IF i = 2 THEN config.enableDotNetFiles
  ELSE config.enableBinaryFiles

ReadReachedSizeCheck ==
  /\ Done
  /\ call.op = "read_file"
  /\ stats.ok
  /\ stats.type = "file"

\* C7: a regular file that passes the gates is read successfully when its
\* size is at most maxFileSize, exactly maxFileSize included, and refused
\* with "File too large: <size> bytes (max: <max>)" when it is larger.
C7_SizeBoundary ==
  ReadReachedSizeCheck =>
    IF stats.size <= config.maxFileSize
      THEN result.success /\ result.data.size = stats.size
      ELSE /\ ~result.success
           /\ result.error.kind = "FileTooLarge"
           /\ result.error.size = stats.size
           /\ result.error.max = config.maxFileSize

C7_Witness ==
  /\ ReadReachedSizeCheck
  /\ stats.size = config.maxFileSize
  /\ result.success
  /\ ~result.data.isBinary

\* the file of the call is classified binary: extension in read_file's
\* binary list, or MIME type beginning with image/ or application/
ClassifiedBinary ==
  \/ includes(readBinaryExtensions, CallExt)
  \/ startsWith(MimeLookup(resolve(call.path)), <<"i","m","a","g","e","/">>)
  \/ startsWith(MimeLookup(resolve(call.path)), <<"a","p","p","l","i","c","a","t","i","o","n","/">>)

\* C8: read_file never issues fs.readFile for a file classified binary, and
\* its successful answer carries the fixed placeholder with isBinary set.
C8_BinaryNeverRead ==
  (call.op = "read_file" /\ ClassifiedBinary) =>
    /\ \A i \in 1..Len(fsLog) : fsLog[i].fn # "readFile"
    /\ (Done /\ result.success) =>
         (result.data.isBinary /\ result.data.content = BinaryPlaceholder)

C8_Witness ==
  /\ Done
  /\ call.op = "read_file"
  /\ call.path = <<"/","h","o","m","e","/","t",".","e","x","e">>
  /\ result.success
  /\ result.data.isBinary
  /\ result.data.content = BinaryPlaceholder

\* the extension is in none of the three categories
InNoCategory(ext) ==
  \A i \in 1..3 : ~includes(CategoryTable[i].extensions, ext)

\* C9: a successful read_file of a file whose extension is in none of the
\* image, .NET and binary categories returns the file's content decoded
\* with the requested encoding, not the placeholder.
C9_TextContentReturned ==
  (/\ Done
   /\ call.op = "read_file"
   /\ result.success
   /\ InNoCategory(CallExt))
  => (/\ result.data.content.kind = "text"
      /\ result.data.content.bytes = fs[stats.real].content
      /\ result.data.content.encoding = call.encoding)

\* the wildcard semantics: "*" is any run of characters, "?" exactly one
\* character, every other character itself, over the whole name
RECURSIVE WildcardMatch(_, _)
WildcardMatch(name, pattern) ==
  IF Len(pattern) = 0 THEN Len(name) = 0
  ELSE IF Head(pattern) = "*"
    THEN \/ WildcardMatch(name, Tail(pattern))
         \/ Len(name) > 0 /\ WildcardMatch(Tail(name), pattern)
  ELSE /\ Len(name) > 0
       /\ Head(pattern) = "?" \/ LowerChar(Head(pattern)) = LowerChar(Head(name))
       /\ WildcardMatch(Tail(name), Tail(pattern))

\* C10: a non-recursive search returns exactly the files of the root whose
\* whole name matches the pattern, letter case disregarded.
C10_WholeNameMatch ==
  (/\ Done
   /\ call.op = "search_files"
   /\ result.success
   /\ ~call.recursive)
  => LET listed == FsReaddir(fs, validatedPath).entries
     IN  {result.data.results[i].name : i \in 1..Len(result.data.results)}
           = {listed[i].name : i \in {j \in 1..Len(listed) :
                  /\ listed[j].kind = "file"
                  /\ WildcardMatch(listed[j].name, call.pattern)}}

\* C11: every character of the pattern other than "*" and "?" stands for
\* itself: a search of a directory that can be enumerated succeeds whatever
\* characters the pattern holds, and every name it returns matches the
\* pattern read as a wildcard pattern.
C11_LiteralCharacters ==
  (/\ Done
   /\ call.op = "search_files"
   /\ PathAccepted
   /\ FsReaddir(fs, resolve(call.path)).ok)
  => /\ result.success
     /\ \A i \in 1..Len(result.data.results) :
          WildcardMatch(result.data.results[i].name, call.pattern)

\* number of directory levels between the directory root and the
\* directory dir below it
LevelsBelow(dir, root) == Len(Segments(dir)) - Len(Segments(root))

\* C12: a recursive search returns no file of a directory more than
\* SEARCH_MAX_DEPTH levels below the search root; a tree deeper than that
\* is not an error: the search of the chain of nested directories succeeds
\* and holds the matching file of every level down to the ceiling.
C12_DepthBounded ==
  /\ (Done /\ call.op = "search_files" /\ result.success)
     => \A i \in 1..Len(result.data.results) :
          LevelsBelow(result.data.results[i].directory, validatedPath)
            <= SEARCH_MAX_DEPTH
  /\ (/\ Done
      /\ call.op = "search_files"
      /\ call.recursive
      /\ resolve(call.path) = ChainDir
      /\ ~matchesPatternThrows(call.pattern))
     => /\ result.success
        /\ \A k \in 0..SEARCH_MAX_DEPTH :
             matchesPattern(ChainName, call.pattern)
             => \E i \in 1..Len(result.data.results) :
                  result.data.results[i].path = ChainPath(k) \o Sep \o ChainName

\* a search of the chain, deeper than the ceiling, has returned the file of
\* each level from the root down to the ceiling, and no other
C12_Witness ==
  /\ Done
  /\ call.op = "search_files"
  /\ call.recursive
  /\ resolve(call.path) = ChainDir
  /\ ChainDepth > SEARCH_MAX_DEPTH
  /\ result.success
  /\ Len(result.data.results) = SEARCH_MAX_DEPTH + 1
  /\ \E i \in 1..Len(result.data.results) :
       result.data.results[i].directory = ChainPath(SEARCH_MAX_DEPTH)

\* the file entries of directory d that can all be stat-ed
FilesStatable(f, d) ==
  LET listed == FsReaddir(f, d).entries
  IN  \A i \in 1..Len(listed) :
        listed[i].kind = "file" => FsStat(f, join(d, listed[i].name)).ok

\* the directories a recursive search from d (at the given depth) goes
\* through without an error: d can be enumerated, its files can be stat-ed,
\* and so for the directories it passed through from the root
RECURSIVE CleanDirs(_, _, _)
CleanDirs(f, d, depth) ==
  IF depth > SEARCH_MAX_DEPTH \/ ~FsReaddir(f, d).ok \/ ~FilesStatable(f, d)
    THEN {}
  ELSE LET listed == FsReaddir(f, d).entries
       IN  {d} \cup UNION {CleanDirs(f, join(d, listed[i].name), depth + 1) :
                             i \in {j \in 1..Len(listed) : listed[j].kind = "dir"}}

\* C13: a recursive search whose root can be enumerated and whose root
\* files can be stat-ed succeeds, whatever error the subdirectories below
\* raise, and its results hold every matching file of every directory that
\* was gone through without an error.
C13_SubdirectoryErrorsSkipped ==
  (/\ Done
   /\ call.op = "search_files"
   /\ call.recursive
   /\ PathAccepted
   /\ FsReaddir(fs, resolve(call.path)).ok
   /\ FilesStatable(fs, resolve(call.path))
   /\ ~matchesPatternThrows(call.pattern))
  => /\ result.success
     /\ \A d \in CleanDirs(fs, validatedPath, 0) :
          LET listed == FsReaddir(fs, d).entries
          IN  \A i \in 1..Len(listed) :
                (listed[i].kind = "file" /\ matchesPattern(listed[i].name, call.pattern))
                => \E k \in 1..Len(result.data.results) :
                     result.data.results[k].path = join(d, listed[i].name)

\* a recursive search succeeded although a directory below its root cannot
\* be enumerated and another cannot be traversed; the result holds a file of
\* a directory listed after both, and no file of either
C13_Witness ==
  /\ Done
  /\ call.op = "search_files"
  /\ call.recursive
  /\ result.success
  /\ \E i \in 1..Len(FsReaddir(fs, validatedPath).entries) :
       LET e == FsReaddir(fs, validatedPath).entries[i]
       IN  e.kind = "dir" /\ ~FsReaddir(fs, join(validatedPath, e.name)).ok
  /\ \E i \in 1..Len(FsReaddir(fs, validatedPath).entries) :
       LET e == FsReaddir(fs, validatedPath).entries[i]
       IN  /\ e.kind = "dir"
           /\ FsReaddir(fs, join(validatedPath, e.name)).ok
           /\ ~FilesStatable(fs, join(validatedPath, e.name))
  /\ \E k \in 1..Len(result.data.results) :
       result.data.results[k].directory = join(validatedPath, <<"s","u","b">>)
  /\ \A k \in 1..Len(result.data.results) :
       result.data.results[k].directory \in CleanDirs(fs, validatedPath, 0)

\* the positions of a running call
Positions ==
  {"idle", "read_stat", "read_readFile", "list_stat", "list_readdir", "list_loop",
   "info_stat", "search_readdir", "search_loop", "search_stat", "done"}

C15_ReadOnly ==
  /\ [][fs' = fs]_vars
  /\ [](Done /\ call.op = "get_file_info" /\ result.success
        => result.data.writable = FALSE)

\* a file has been read and returned, and the file system is the one the
\* tools started with
C15_Witness ==
  /\ Done
  /\ call.op = "read_file"
  /\ result.success
  /\ ~result.data.isBinary
  /\ fs = InitialFs

\* the entry at path p would be refused by read_file: its extension is
\* outside the allowlist or of a disabled category, or it is a file larger
\* than the size limit
RefusedByReadFile(p) ==
  \/ validateExtension(p, config.allowedExtensions, config) # NoError
  \/ FsStat(fs, p).ok /\ FsStat(fs, p).type = "file"
     /\ FsStat(fs, p).size > config.maxFileSize

\* every entry of directory d can be stat-ed
EntriesStatable(f, d) ==
  LET listed == FsReaddir(f, d).entries
  IN  \A i \in 1..Len(listed) : FsStat(f, join(d, listed[i].name)).ok

\* C16: get_file_info succeeds for every path that passes the path policy
\* and exists, and list_directory of such a directory succeeds and reports
\* every entry that is not hidden, whatever the extension, the category or
\* the size of the entry.
C16_MetadataNotGated ==
  /\ (/\ Done
      /\ call.op = "get_file_info"
      /\ PathAccepted
      /\ FsStat(fs, resolve(call.path)).ok)
     => result.success
  /\ (/\ Done
      /\ call.op = "list_directory"
      /\ PathAccepted
      /\ FsReaddir(fs, resolve(call.path)).ok
      /\ EntriesStatable(fs, resolve(call.path)))
     => /\ result.success
        /\ LET listed == FsReaddir(fs, validatedPath).entries
           IN  \A i \in 1..Len(listed) :
                 ~startsWith(listed[i].name, <<".">>)
                 => \E k \in 1..Len(result.data.items) :
                      /\ result.data.items[k].name = listed[i].name
                      /\ result.data.items[k].path = join(validatedPath, listed[i].name)

\* list_directory has succeeded and reported a file of a disabled
\* category and a file whose extension is outside the allowlist
C16_Witness ==
  /\ Done
  /\ call.op = "list_directory"
  /\ result.success
  /\ \E k \in 1..Len(result.data.items) :
       /\ result.data.items[k].type = "file"
       /\ RefusedByReadFile(result.data.items[k].path)
       /\ validateExtension(result.data.items[k].path,
                            config.allowedExtensions, config).kind
            = "BinaryFilesDisabled"
  /\ \E k \in 1..Len(result.data.items) :
       validateExtension(result.data.items[k].path,
                         config.allowedExtensions, config).kind
         = "FileTypeNotAllowed"

\* the running call has issued nothing but fs.stat on its own path
OnlyStatIssued ==
  \A i \in 1..Len(fsLog) : fsLog[i] = FsCall("stat", validatedPath)

\* C17: list_directory of an accepted path that exists and is no directory
\* fails with "Path is not a directory", and read_file of a path that passes
\* the path and extension gates, exists and is no regular file fails with
\* "Path is not a file"; neither issues fs.readdir or fs.readFile.
C17_WrongEntryType ==
  /\ (/\ call.op = "list_directory"
      /\ PathAccepted
      /\ FsStat(fs, resolve(call.path)).ok
      /\ FsStat(fs, resolve(call.path)).type # "dir")
     => /\ OnlyStatIssued
        /\ Done => ~result.success /\ result.error = Err("NotADirectory", <<>>)
  /\ (/\ call.op = "read_file"
      /\ PathAccepted
      /\ validateExtension(resolve(call.path), config.allowedExtensions, config) = NoError
      /\ FsStat(fs, resolve(call.path)).ok
      /\ FsStat(fs, resolve(call.path)).type # "file")
     => /\ OnlyStatIssued
        /\ Done => ~result.success /\ result.error = Err("NotAFile", <<>>)

\* list_directory of a regular file has failed after the one fs.stat
C17_Witness ==
  /\ Done
  /\ call.op = "list_directory"
  /\ stats.ok
  /\ stats.type = "file"
  /\ fsLog = <<FsCall("stat", validatedPath)>>
  /\ result = Failure(Err("NotADirectory", <<>>))

\* read_file of a directory whose name has an allowed extension has failed
\* after the one fs.stat
C17_WitnessReadFile ==
  /\ Done
  /\ call.op = "read_file"
  /\ stats.ok
  /\ stats.type = "dir"
  /\ fsLog = <<FsCall("stat", validatedPath)>>
  /\ result = Failure(Err("NotAFile", <<>>))

\* C18: a listing that succeeds holds only immediate entries of the
\* directory and its count is the number of its items; without
\* include_hidden no item's name begins with ".", and with include_hidden
\* the items are the entries of the directory, one for one.
C18_HiddenEntries ==
  (Done /\ call.op = "list_directory" /\ result.success)
  => LET listed == FsReaddir(fs, validatedPath).entries
         items  == result.data.items
     IN  /\ result.data.count = Len(items)
         /\ \A k \in 1..Len(items) :
              /\ \E i \in 1..Len(listed) : listed[i].name = items[k].name
              /\ items[k].path = join(validatedPath, items[k].name)
              /\ dirname(items[k].path) = validatedPath
         /\ ~call.include_hidden
            => \A k \in 1..Len(items) : ~startsWith(items[k].name, <<".">>)
         /\ call.include_hidden
            => /\ Len(items) = Len(listed)
               /\ \A i \in 1..Len(listed) : items[i].name = listed[i].name

\* a directory with a hidden entry and a subdirectory that has entries was
\* listed without include_hidden: all but the hidden entry are returned
C18_Witness ==
  /\ Done
  /\ call.op = "list_directory"
  /\ ~call.include_hidden
  /\ result.success
  /\ LET listed == FsReaddir(fs, validatedPath).entries
     IN  /\ Cardinality({i \in 1..Len(listed) : startsWith(listed[i].name, <<".">>)}) = 1
         /\ result.data.count = Len(listed) - 1
         /\ \E i \in 1..Len(listed) :
              /\ listed[i].kind = "dir"
              /\ Len(FsReaddir(fs, join(validatedPath, listed[i].name)).entries) > 0

\* the envelope read_file returns before any fs call when the policy pol
\* refuses the path or the extension, NoResult when pol lets it through
GateVerdict(pol) ==
  LET v == validatePath(call.path, pol.restrictedPaths)
      e == validateExtension(v.path, pol.allowedExtensions, pol)
  IN  IF ~v.ok THEN Failure(v.error)
      ELSE IF e # NoError THEN Failure(e)
      ELSE NoResult

\* C19: the policy of the tool set changes only when a tool set is built,
\* between calls, to the plugin configuration of that moment; no step of a
\* tool and no change of the settings modifies it; and every call is
\* decided against it, whatever the settings have become: the path gate of
\* the four tools, the extension gate and the size limit of read_file.
C19_PolicySnapshot ==
  /\ [][config' # config
          => pc = "idle" /\ pc' = "idle" /\ config' = getConfig(hostConfig)]_vars
  /\ [][pc # "idle" => config' = config]_vars
  /\ [](Done => (Denied <=> ~validatePath(call.path, config.restrictedPaths).ok))
  /\ [](Done /\ call.op = "read_file" /\ GateVerdict(config) # NoResult
        => result = GateVerdict(config))
  /\ [](Done /\ call.op = "read_file" /\ GateVerdict(config) = NoResult
           /\ stats.ok /\ stats.type = "file"
        => (result.success <=> ~(stats.size > config.maxFileSize)))

\* a call was refused by the policy of the tool set although the settings,
\* changed in the meantime, would let it through
C19_Witness ==
  /\ Done
  /\ call.op = "read_file"
  /\ getConfig(hostConfig) # config
  /\ GateVerdict(config) # NoResult
  /\ result = GateVerdict(config)
  /\ GateVerdict(getConfig(hostConfig)) = NoResult

\* C20: a get_file_info call returns the envelope every earlier
\* get_file_info call with the same path returned, whatever calls were made
\* in between (the file system and the policy being what they were).
C20_InfoIdempotent ==
  (Done /\ call.op = "get_file_info")
  => \A a \in answers : a.path = call.path => a.result = result

\* the third successful answer for a path that was asked before, after a
\* path of another category was asked
C20_Witness ==
  /\ Done
  /\ call.op = "get_file_info"
  /\ result.success
  /\ result.data.fileCategory = ""
  /\ [path |-> call.path, result |-> result] \in answers
  /\ \E a \in answers : a.result.success /\ a.result.data.fileCategory # ""
  /\ \E a \in answers : ~a.result.success

\* C21: the allowlist of the policy is never empty, whatever the setting:
\* a setting that parses to no extension gives the default list, and
\* read_file succeeds only on an extension that is in the list.
C21_AllowlistNonEmpty ==
  /\ Len(config.allowedExtensions) > 0
  /\ Len(getConfig(hostConfig).allowedExtensions) > 0
  /\ ParseList(hostConfig.allowedExtensions) = <<>>
     => getConfig(hostConfig).allowedExtensions = DEFAULT_ALLOWED_EXTENSIONS
  /\ (Done /\ call.op = "read_file" /\ result.success)
     => includes(config.allowedExtensions, CallExt)

\* the tool set was built from a setting of commas and blanks only, and
\* read_file has refused a file for its extension
C21_Witness ==
  /\ Done
  /\ call.op = "read_file"
  /\ config = getConfig(hostConfig)
  /\ hostConfig.allowedExtensions # <<>>
  /\ ParseList(hostConfig.allowedExtensions) = <<>>
  /\ ~result.success
  /\ result.error.kind = "FileTypeNotAllowed"

\* the failure of the first check of read_file that fails, the checks taken
\* in the order path policy, extension gate, fs.stat, regular file, size;
\* NoResult when all five pass
FirstFailure ==
  LET v == validatePath(call.path, config.restrictedPaths)
      e == validateExtension(v.path, config.allowedExtensions, config)
      s == FsStat(fs, v.path)
  IN  IF ~v.ok THEN Failure(v.error)
      ELSE IF e # NoError THEN Failure(e)
      ELSE IF ~s.ok THEN Failure(s.error)
      ELSE IF s.type # "file" THEN Failure(Err("NotAFile", <<>>))
      ELSE IF s.size > config.maxFileSize
        THEN Failure(ErrTooLarge(s.size, config.maxFileSize))
      ELSE NoResult

\* C22: read_file returns the error of the first check that fails in the
\* order path policy, extension gate, fs.stat, regular file, size, and
\* succeeds when none fails.
C22_CheckOrder ==
  (Done /\ call.op = "read_file")
  => IF FirstFailure = NoResult THEN result.success ELSE result = FirstFailure

\* a file larger than the limit, with an extension outside the allowlist,
\* was refused for its extension, and no fs call was issued
C22_Witness ==
  /\ Done
  /\ call.op = "read_file"
  /\ PathAccepted
  /\ FsStat(fs, resolve(call.path)).ok
  /\ FsStat(fs, resolve(call.path)).type = "file"
  /\ FsStat(fs, resolve(call.path)).size > config.maxFileSize
  /\ result.error.kind = "FileTypeNotAllowed"
  /\ fsLog = <<>>

\* a restricted path with an extension outside the allowlist was refused
\* by the path policy
C22_WitnessRestricted ==
  /\ Done
  /\ call.op = "read_file"
  /\ ~PathAccepted
  /\ validateExtension(resolve(call.path), config.allowedExtensions, config) # NoError
  /\ result.error.kind = "AccessDenied"

\* a path that does not exist, with an extension outside the allowlist, was
\* refused for its extension
C22_WitnessMissing ==
  /\ Done
  /\ call.op = "read_file"
  /\ PathAccepted
  /\ FsStat(fs, resolve(call.path)).error.kind = "ENOENT"
  /\ result.error.kind = "FileTypeNotAllowed"

\* the key of the allowlist for a name without extension: path.extname
\* gives the empty string
NoExtensionKey == <<>>

\* C23: read_file of an accepted path whose last segment has no extension
\* is refused with the file-type-not-allowed error exactly when the
\* allowlist does not hold the no-extension key, and the extension gate
\* lets the path through when the key is put into the allowlist.
C23_NoExtension ==
  (Done /\ call.op = "read_file" /\ PathAccepted /\ extname(resolve(call.path)) = <<>>)
  => /\ ~includes(config.allowedExtensions, NoExtensionKey)
        <=> result = Failure(Err("FileTypeNotAllowed", NoExtensionKey))
     /\ validateExtension(validatedPath,
                          Append(config.allowedExtensions, NoExtensionKey),
                          config) = NoError

\* read_file of an existing file without extension was refused for its
\* extension before any fs call
C23_Witness ==
  /\ Done
  /\ call.op = "read_file"
  /\ PathAccepted
  /\ extname(resolve(call.path)) = <<>>
  /\ FsStat(fs, resolve(call.path)).ok
  /\ FsStat(fs, resolve(call.path)).type = "file"
  /\ result = Failure(Err("FileTypeNotAllowed", NoExtensionKey))
  /\ fsLog = <<>>

\* C24: a call whose path holds a null byte ends with the invalid-path
\* error, without any fs call having been issued.
C24_InvalidPathRejected ==
  (Done /\ hasNul(call.path))
  => /\ ~result.success
     /\ result.error.kind = "InvalidPath"
     /\ fsLog = <<>>

\* C25: a search that is not recursive enumerates the search root and no
\* other directory; every record it returns is of a file entry of the root,
\* with the root as its directory.
C25_NonRecursive ==
  (call.op = "search_files" /\ ~call.recursive)
  => /\ \A i \in 1..Len(fsLog) :
          fsLog[i].fn = "readdir" => fsLog[i].path = validatedPath
     /\ (Done /\ result.success)
        => LET listed == FsReaddir(fs, validatedPath).entries
           IN  \A k \in 1..Len(result.data.results) :
                 /\ result.data.results[k].directory = validatedPath
                 /\ \E i \in 1..Len(listed) :
                      /\ listed[i].kind = "file"
                      /\ listed[i].name = result.data.results[k].name
                      /\ result.data.results[k].path = join(validatedPath, listed[i].name)

\* a search that is not recursive, of a root that has a subdirectory with
\* files matching the pattern, returned files of the root alone
C25_Witness ==
  /\ Done
  /\ call.op = "search_files"
  /\ ~call.recursive
  /\ result.success
  /\ Len(result.data.results) > 0
  /\ LET listed == FsReaddir(fs, validatedPath).entries
     IN  \E i \in 1..Len(listed) :
           /\ listed[i].kind = "dir"
           /\ LET below == FsReaddir(fs, join(validatedPath, listed[i].name)).entries
              IN  \E j \in 1..Len(below) :
                    /\ below[j].kind = "file"
                    /\ matchesPattern(below[j].name, call.pattern)

\* the fs.readdir calls the running call has issued
Enumerated == {i \in 1..Len(fsLog) : fsLog[i].fn = "readdir"}

\* C26: every search that has started ends with an envelope; while it
\* runs it enumerates no directory twice and none below the depth ceiling,
\* also in a tree where a symbolic link leads back to a directory above it.
C26_SearchTerminates ==
  /\ (call.op = "search_files") ~> Done
  /\ [](call.op = "search_files"
        => \A i, j \in Enumerated :
             /\ LevelsBelow(fsLog[i].path, validatedPath) <= SEARCH_MAX_DEPTH
             /\ (i # j /\ FsStat(fs, fsLog[i].path).ok)
                => FsStat(fs, fsLog[i].path).real # FsStat(fs, fsLog[j].path).real)

\* a recursive search has ended with success after enumerating a directory
\* that holds a symbolic link back to the search root
C26_Witness ==
  /\ Done
  /\ call.op = "search_files"
  /\ call.recursive
  /\ result.success
  /\ \E i \in Enumerated :
       LET listed == FsReaddir(fs, fsLog[i].path).entries
       IN  \E k \in 1..Len(listed) :
             /\ listed[k].kind = "symlink"
             /\ FsStat(fs, join(fsLog[i].path, listed[k].name)).ok
             /\ FsStat(fs, join(fsLog[i].path, listed[k].name)).real = validatedPath

\* the names list_directory does not filter among those fs.readdir gives
\* for dir in the file system f
ShownNames(f, dir, include_hidden) ==
  LET listed == FsReaddir(f, dir).entries
  IN  {listed[k].name : k \in {j \in 1..Len(listed) :
                                 ~skipHidden(include_hidden, listed[j].name)}}

ItemNames(items) == {items[k].name : k \in 1..Len(items)}

\* C27: list_directory is all-or-nothing.  A call that ends with success
\* returns one item, and only one, for every non-filtered entry of the
\* directory (every entry still there is listed, and every item is an entry
\* the directory had), with count the number of items; a call that fails
\* returns no item; and the step that finds fs.stat of an entry failing, with
\* whatever items it has pushed so far, ends the call with a failure
C27_AllOrNothing ==
  /\ [](Done /\ call.op = "list_directory"
        => IF result.success
             THEN /\ result.data.count = Len(result.data.items)
                  /\ Cardinality(ItemNames(result.data.items)) = Len(result.data.items)
                  /\ ShownNames(fs, validatedPath, call.include_hidden)
                       \subseteq ItemNames(result.data.items)
                  /\ ItemNames(result.data.items)
                       \subseteq ShownNames(InitialFs, validatedPath, call.include_hidden)
             ELSE result.data = NoData)
  /\ [][(/\ pc = "list_loop"
         /\ fs' = fs
         /\ Len(entries) > 0
         /\ ~skipHidden(call.include_hidden, Head(entries).name)
         /\ ~FsStat(fs, join(validatedPath, Head(entries).name)).ok)
        => /\ pc' = "done"
           /\ ~result'.success
           /\ result'.data = NoData]_vars

\* list_directory has failed on fs.stat of an entry that was removed after
\* fs.readdir had returned it, with an item already pushed
C27_Witness ==
  /\ Done
  /\ call.op = "list_directory"
  /\ ~result.success
  /\ result.error.kind = "ENOENT"
  /\ Len(results) > 0
  /\ fsLog[Len(fsLog)].fn = "stat"
  /\ fsLog[Len(fsLog)].path \in EnvRemovable
  /\ fsLog[Len(fsLog)].path \notin DOMAIN fs

\* C28: no record of search_files or list_directory describes an entry
\* under a restricted path: from a root that is an unrestricted ancestor of
\* a restricted directory, no pushed record has a path equal to or nested
\* under a restricted path, and the search enumerates no directory that is
\* one.
C28_NoRestrictedRecord ==
  call.op \in {"search_files", "list_directory"}
    => /\ \A k \in 1..Len(results) : ~UnderRestricted(results[k].path)
       /\ \A i \in Enumerated : ~UnderRestricted(fsLog[i].path)

\* C29: the size limit holds on the content that is returned: whatever
\* another process does to the file between the awaits of a read_file call,
\* a successful text read returns content of at most maxFileSize bytes.
C29_SizeLimitOnContent ==
  (/\ Done
   /\ call.op = "read_file"
   /\ result.success
   /\ ~result.data.isBinary)
    => result.data.content.length <= config.maxFileSize

\* the directories in the scope of a search from d: d itself and, for a
\* recursive search, every directory entry below it down to the depth
\* ceiling
RECURSIVE ScopeDirs(_, _, _, _)
ScopeDirs(f, d, depth, recursive) ==
  IF depth > SEARCH_MAX_DEPTH THEN {}
  ELSE LET listed == FsReaddir(f, d).entries
       IN  {d} \cup
           (IF recursive
              THEN UNION {ScopeDirs(f, join(d, listed[i].name), depth + 1, recursive) :
                            i \in {j \in 1..Len(listed) : listed[j].kind = "dir"}}
              ELSE {})

\* the paths of the regular-file entries in scope whose name matches the
\* pattern
MatchingInScope(f, root, pattern, recursive) ==
  UNION {LET listed == FsReaddir(f, d).entries
         IN  {join(d, listed[i].name) :
                i \in {j \in 1..Len(listed) :
                         /\ listed[j].kind = "file"
                         /\ WildcardMatch(listed[j].name, pattern)}}
         : d \in ScopeDirs(f, root, 0, recursive)}

\* C30: the results of search_files are exactly the matching files in
\* scope: when every directory in scope can be enumerated and its files
\* stat-ed, the search succeeds, the paths of its records are the paths of
\* the regular-file entries in scope whose name matches the pattern, no
\* record comes twice, and count is the number of records.
C30_ExactResults ==
  (/\ Done
   /\ call.op = "search_files"
   /\ PathAccepted
   /\ \A d \in ScopeDirs(fs, validatedPath, 0, call.recursive) :
         FsReaddir(fs, d).ok /\ FilesStatable(fs, d))
  => /\ result.success
     /\ {result.data.results[i].path : i \in 1..Len(result.data.results)}
          = MatchingInScope(fs, validatedPath, call.pattern, call.recursive)
     /\ Cardinality({result.data.results[i].path : i \in 1..Len(result.data.results)})
          = Len(result.data.results)
     /\ result.data.count = Len(result.data.results)

====
